---- MODULE Spec2Model ----
(***************************************************************************)
(* Tariff extraction of the logistics application: the adaptive analyzer,  *)
(* the context analyzer, the universal analyzer, the parser helpers and    *)
(* the entry points built on them.                                         *)
(*                                                                         *)
(* A text is a sequence of tokens.  A token is a literal chunk of the      *)
(* text; the text is the tokens joined by single spaces, except that "/"   *)
(* and the tight dash "-" are glued to both neighbours, "$" is glued to    *)
(* its right neighbour, ":" to its left neighbour, the spaced dash " - "   *)
(* carries its own spaces and "\n" is a line break.  A token written       *)
(* "ru:xxx" stands for the Cyrillic word it transliterates.  Amounts are   *)
(* integers in hundredths.  None, the empty string and the empty list are  *)
(* all the empty sequence << >>; an optional number is << >> or <<v>>.     *)
(*                                                                         *)
(* The regular expressions of the source are translated to matchers over  *)
(* tokens.  The documents are built from whole lines of the set Lines; no  *)
(* line begins or ends with a dash and no two dashes are adjacent, which   *)
(* the matchers rely on where a pattern asks for one character at least.   *)
(***************************************************************************)
EXTENDS Integers, Sequences, FiniteSets, TLC

NL == "\n"

DashTok == {"-", " - "}

NumTok == {"9500", "100", "78", "600", "8.90", "5.50", "4.85", "4.57",
           "15000", "50", "375"}

\* value of a number token, in hundredths (float(...) of the token)
NumVal(t) ==
    CASE t = "9500"  -> 950000
      [] t = "100"   -> 10000
      [] t = "78"    -> 7800
      [] t = "600"   -> 60000
      [] t = "8.90"  -> 890
      [] t = "5.50"  -> 550
      [] t = "4.85"  -> 485
      [] t = "4.57"  -> 457
      [] t = "15000" -> 1500000
      [] t = "50"    -> 5000
      [] t = "375"   -> 37500
      [] OTHER       -> 0

\* tokens made of digits only, and how many digits they have
PureInt == {"9500", "100", "78", "600", "15000", "50", "375"}

NumDigits(t) ==
    CASE t \in {"78", "50"}  -> 2
      [] t \in {"100", "600", "375"} -> 3
      [] t = "9500"           -> 4
      [] t = "15000"          -> 5
      [] OTHER                -> 0

\* tokens that contain a digit, and their first run of digits as an integer
DigitTok == NumTok \cup {"D1357"}

DigitRun(t) ==
    CASE t \in PureInt   -> NumVal(t) \div 100
      [] t = "8.90"      -> 8
      [] t = "5.50"      -> 5
      [] t \in {"4.85", "4.57"} -> 4
      [] t = "D1357"     -> 1357
      [] OTHER           -> 0

\* tokens that begin with a digit
StartsDigit == NumTok

Pow10(n) == IF n = 2 THEN 100 ELSE IF n = 3 THEN 1000
            ELSE IF n = 4 THEN 10000 ELSE IF n = 5 THEN 100000 ELSE 10

Min(S) == CHOOSE x \in S : \A y \in S : x <= y

Range(s) == {s[i] : i \in 1..Len(s)}

\* index of the first token of S at or after i, 0 when there is none
NextIn(W, i, S) ==
    LET C == {j \in i..Len(W) : W[j] \in S}
    IN  IF i < 1 \/ C = {} THEN 0 ELSE Min(C)

\* the tokens W[a..b]
Slice(W, a, b) == IF a > b THEN << >> ELSE SubSeq(W, a, b)

\* the text with its line breaks turned into spaces / ignored as whitespace
Flat(T) == SelectSeq(T, LAMBDA t : t # NL)

RECURSIVE SplitLines(_)
\* text.split('\n')
SplitLines(T) ==
    LET n == NextIn(T, 1, {NL})
    IN  IF n = 0 THEN <<T>>
        ELSE <<Slice(T, 1, n - 1)>> \o SplitLines(Slice(T, n + 1, Len(T)))

\* the tokens at i, i+1, ... belong to the classes pats[1], pats[2], ...
SeqAt(W, i, pats) ==
    /\ i >= 1
    /\ i + Len(pats) - 1 <= Len(W)
    /\ \A k \in 1..Len(pats) : W[i + k - 1] \in pats[k]

ExistsSeq(W, pats) == \E i \in 1..Len(W) : SeqAt(W, i, pats)

(***************************************************************************)
(* The lines the documents are made of.                                    *)
(***************************************************************************)
L_exw2    == <<"EXW", "Shenzhen", "/", "Guangzhou", " - ", "Moscow", " - ",
               "$", "9500", "per truck">>
L_exw2s   == <<"EXW", "Shenzhen", "/", "Guangzhou", " - ", "Moscow", " - ",
               "$", "9500">>
L_same    == <<"EXW", "Moscow", " - ", "Moscow", " - ", "$", "100">>
L_cny     == <<"EXW", "Shanghai", "-", "KZ", "-", "Moscow", ":", "78",
               "600", "CNY">>
L_air     == <<"HKG", "-", "PEK", "375", "/", "shpt", "8.90", "5.50", "4.85", "4.57">>
L_airsame == <<"HKG", "-", "HKG", "375", "/", "shpt", "8.90", "5.50", "4.85", "4.57">>
L_d1357   == <<"HKG", "-", "PEK", "D1357", "8.90", "5.50", "4.85", "4.57">>
L_ru      == <<"ru:Moskva", " - ", "ru:Kazan", ":", "15000", "ru:rub">>
L_many    == <<"EXW", "Shenzhen", "/", "Guangzhou", "/", "Shanghai", "/",
               "Beijing", " - ", "Moscow", "/", "Kazan", "/", "Samara",
               " - ", "$", "9500">>
L_tbl     == <<"ru:Shanhaj", "|", "ru:Moskva", "|", "100", "USD", "|", "50",
               "|", "50", "|", "50", "|", "50">>
L_tbl0    == <<"|", "ru:Shanhaj", "|", "ru:Moskva", "|", "100", "USD", "|", "50",
               "|", "50", "|", "50">>
L_word    == <<"ru:tarif">>
L_tru     == <<"ru:tarif", "ru:Moskva", " - ", "ru:Kazan", ":", "15000", "ru:rub">>
L_plane   == <<"ru:samolet">>
L_cost    == <<"PARKING", ":", "USD", "50">>
L_park    == <<"PARKING", ":", "50">>
L_fee     == <<"STORAGE", ":", "USD", "50">>
L_store   == <<"STORAGE", ":", "50", "USD">>

Lines == {L_exw2, L_exw2s, L_same, L_cny, L_air, L_airsame, L_d1357, L_ru, L_many,
          L_tbl, L_word, L_tru, L_plane, L_cost, L_park, L_fee, L_store,
          L_tbl0}

MaxLines == 2

RECURSIVE JoinLines(_)
\* '\n'.join(lines)
JoinLines(ls) ==
    IF Len(ls) = 0 THEN << >>
    ELSE IF Len(ls) = 1 THEN ls[1]
    ELSE ls[1] \o <<NL>> \o JoinLines(Tail(ls))

LineSeqs == UNION {[1..n -> Lines] : n \in 0..MaxLines}

Docs == {JoinLines(ls) : ls \in LineSeqs}

(***************************************************************************)
(* AdaptiveTariffAnalyzer: the patterns of the five strategies, as used    *)
(* by _detect_format (re.search over the whole text, IGNORECASE).          *)
(***************************************************************************)
WordTok(t) == t \notin DashTok \cup {"/", "$", ":", "|", NL}

\* [A-Z]{3} between word boundaries
Code3 == {"HKG", "PEK", "EXW", "CNY", "USD"}

AirIndicatorWords == {"air", "airline", "MU", "flight", "D1357"}
AirIndicatorCodes == {"HKG", "XIY", "SVO", "PEK", "CAN", "SHA"}
FtlIndicatorWords == {"FTL", "truck", "EXW", "FCA", "CPT", "CIP", "DAP",
                      "DDP", "per truck"}
FtlIndicatorCities == {"Shenzhen", "Guangzhou", "Shanghai", "Beijing",
                       "Tianjin", "Qingdao"}
FtlIndicatorUnits == {"CNY", "per truck"}
SeaIndicatorWords == {"sea", "ocean", "FCL", "LCL", "container", "ship"}
SeaIndicatorCities == {"Shanghai", "Ningbo", "Qingdao", "Tianjin",
                       "Guangzhou", "Shenzhen"}
RailIndicatorWords == {"rail", "RFCL", "FCL"}
RailIndicatorCities == {"Moscow", "Novosibirsk", "Kazan", "Samara", "Omsk"}
UniversalIndicatorWords == {"ru:tarif", "tariff", "price", "cost"}

Has(T, S) == \E i \in 1..Len(T) : T[i] \in S

\* a number followed by "$" counts only when "$" is followed by a word
\* character (the pattern ends in \b)
NumThenDollarWord(W) ==
    \E i \in 1..Len(W) :
        /\ SeqAt(W, i, <<NumTok, {"$"}>>)
        /\ i + 2 <= Len(W)
        /\ WordTok(W[i + 2])

\* EXW\s+[^-]+-([^-]+)-\s*\$  with an optional number after the dollar sign;
\* the result is the set of indexes i of EXW where the pattern matches
ExwDashDashDollar(W, needNum) ==
    {i \in 1..Len(W) :
        /\ W[i] = "EXW"
        /\ LET d1 == NextIn(W, i + 1, DashTok)
               d2 == IF d1 = 0 THEN 0 ELSE NextIn(W, d1 + 1, DashTok)
           IN  /\ d1 > i + 1
               /\ d2 > d1 + 1
               /\ d2 + 1 <= Len(W)
               /\ W[d2 + 1] = "$"
               /\ needNum => (d2 + 2 <= Len(W) /\ W[d2 + 2] \in NumTok)}

\* ([^-]+)\s*[-→]\s*([^-]+)\s*[-→]\s*\$
DashDashDollar(W) ==
    \E d1 \in 2..Len(W) :
        /\ W[d1] \in DashTok
        /\ LET d2 == NextIn(W, d1 + 1, DashTok)
           IN  /\ d2 > d1 + 1
               /\ d2 + 1 <= Len(W)
               /\ W[d2 + 1] = "$"

\* EXW\s+([^-\n]+?)\s*-\s*([^-\n]+?)\s*-\s*\$?(\d+(?:,\d+)?)  in one line
ExwLineNumber(L) ==
    \E i \in 1..Len(L) :
        /\ L[i] = "EXW"
        /\ LET d1 == NextIn(L, i + 1, DashTok)
               d2 == IF d1 = 0 THEN 0 ELSE NextIn(L, d1 + 1, DashTok)
           IN  /\ d1 > i + 1
               /\ d2 > d1 + 1
               /\ \/ SeqAt(L, d2 + 1, <<StartsDigit>>)
                  \/ SeqAt(L, d2 + 1, <<{"$"}, StartsDigit>>)

\* the number group (\d+(?:\s*\d+)?) followed by \s*CNY, starting at i:
\* one whole number, or two of them, then CNY
CnyNumberAt(W, i) ==
    \/ SeqAt(W, i, <<PureInt, {"CNY"}>>)
    \/ SeqAt(W, i, <<PureInt, PureInt, {"CNY"}>>)

\* EXW\s+[^:]+:\s*(\d+(?:\s*\d+)?)\s*CNY : the index set of EXW
ExwColonCny(W) ==
    {i \in 1..Len(W) :
        /\ W[i] = "EXW"
        /\ LET c == NextIn(W, i + 1, {":"})
           IN  c > i + 1 /\ CnyNumberAt(W, c + 1)}

\* a dash with text on both sides: ([^-]+)\s*[-→]\s*([^-]+)
AnyRoute(W) == \E d \in 2..(Len(W) - 1) : W[d] \in DashTok

\* one BOOLEAN per pattern of the strategy, in the order _detect_format
\* counts them: transport_indicators, price_patterns, route_patterns
StrategyPatterns(name, T) ==
    LET W == Flat(T)
        Ls == SplitLines(T)
    IN CASE name = "air_tariff" ->
            << Has(W, AirIndicatorWords),
               Has(W, AirIndicatorCodes),
               ExistsSeq(W, <<NumTok, {"USD"}>>) \/ NumThenDollarWord(W),
               ExistsSeq(W, <<NumTok, {"RUB", "ru:rub"}>>),
               ExistsSeq(W, <<NumTok, {"SD"}>>),
               ExistsSeq(W, <<{"|"}, NumTok, NumTok, NumTok, NumTok>>),
               ExistsSeq(W, <<Code3, {"-"}, Code3>>),
               ExistsSeq(W, <<Code3, DashTok, Code3>>) >>
         [] name = "ftl_tariff" ->
            << Has(W, FtlIndicatorWords),
               Has(W, FtlIndicatorCities),
               Has(W, FtlIndicatorUnits),
               ExistsSeq(W, <<{"$"}, NumTok, {"per truck"}>>),
               ExistsSeq(W, <<NumTok, {"USD", "$"}, {"per truck"}>>),
               ExwDashDashDollar(W, TRUE) # {},
               ExistsSeq(W, <<NumTok, {"USD", "$"}, {"per truck"}>>),
               ExistsSeq(W, <<NumTok, {"ru:dollar"}, {"per truck"}>>),
               ExistsSeq(W, <<NumTok, {"CNY"}>>),
               ExwColonCny(W) # {},
               ExwDashDashDollar(W, FALSE) # {},
               DashDashDollar(W),
               \E k \in 1..Len(Ls) : ExwLineNumber(Ls[k]) >>
         [] name = "sea_tariff" ->
            << Has(W, SeaIndicatorWords),
               Has(W, SeaIndicatorCities),
               ExistsSeq(W, <<NumTok, {"USD", "$"}, {"per container"}>>),
               ExistsSeq(W, <<{"FCL"}, NumTok, {"USD", "$"}>>),
               ExistsSeq(W, <<{"LCL"}, NumTok, {"USD", "$"}>>),
               AnyRoute(W) /\ Has(W, {"FCL", "LCL"}),
               Has(W, {"FCL"}) /\ AnyRoute(W) >>
         [] name = "rail_tariff" ->
            << Has(W, RailIndicatorWords),
               Has(W, RailIndicatorCities),
               ExistsSeq(W, <<NumTok, {"RUB", "ru:rub"}, {"per wagon"}>>),
               ExistsSeq(W, <<{"RFCL"}, NumTok, {"RUB", "ru:rub"}>>),
               ExistsSeq(W, <<{"FCL"}, NumTok, {"RUB", "ru:rub"}>>),
               AnyRoute(W) /\ Has(W, {"RFCL", "FCL"}),
               Has(W, {"RFCL"}) /\ AnyRoute(W) >>
         [] OTHER ->
            << Has(W, UniversalIndicatorWords),
               ExistsSeq(W, <<NumTok, {"USD", "RUB", "ru:rub"}>>)
                   \/ NumThenDollarWord(W),
               ExistsSeq(W, <<NumTok, {"ru:dollar", "ru:rubl"}>>),
               AnyRoute(W),
               Has(W, {"ru:ot"}) /\ Has(W, {"ru:do"}),
               Has(W, {"from"}) /\ Has(W, {"to"}) >>

StrategyNames == <<"air_tariff", "ftl_tariff", "sea_tariff", "rail_tariff",
                   "universal">>

\* confidences are kept in units of 1/ConfUnit, which every pattern count
\* (8, 13, 7, 7, 6) divides
ConfUnit == 2184

\* matched_patterns / total_patterns of one strategy
Confidence(name, T) ==
    LET ps == StrategyPatterns(name, T)
        m  == Cardinality({k \in 1..Len(ps) : ps[k]})
    IN  (m * ConfUnit) \div Len(ps)

\* the priority of a strategy: its place in the catalog
Priority(name) == CHOOSE k \in 1..Len(StrategyNames) : StrategyNames[k] = name

\* a choice that takes the last of the strategies of equal confidence
BestStrategyLast(conf) ==
    LET best == CHOOSE k \in 1..Len(StrategyNames) :
                    \A j \in 1..Len(StrategyNames) :
                        \/ conf[k] > conf[j]
                        \/ conf[k] = conf[j] /\ k >= j
    IN  StrategyNames[best]

\* max(self.strategies, key=lambda s: (s.confidence, -s.priority)) over a
\* catalog conf: index of strategy -> confidence
BestStrategy(conf) ==
    LET best == CHOOSE k \in 1..Len(StrategyNames) :
                    \A j \in 1..Len(StrategyNames) :
                        \/ conf[k] > conf[j]
                        \/ conf[k] = conf[j] /\ k <= j
    IN  StrategyNames[best]

\* _detect_format run alone on a fresh analyzer
DetectFormat(T) ==
    BestStrategy([k \in 1..Len(StrategyNames) |->
                     Confidence(StrategyNames[k], T)])

(***************************************************************************)
(* Helpers of the adaptive analyzer.                                       *)
(***************************************************************************)
RECURSIVE SetToSeq(_)
\* the members of a set of integers in ascending order
SetToSeq(S) ==
    IF S = {} THEN << >>
    ELSE LET m == Min(S) IN <<m>> \o SetToSeq(S \ {m})

RECURSIVE SplitOn(_, _)
\* s.split(sep), the empty parts dropped
SplitOn(W, sep) ==
    LET n == NextIn(W, 1, sep)
    IN  IF Len(W) = 0 THEN << >>
        ELSE IF n = 0 THEN <<W>>
        ELSE (IF n = 1 THEN << >> ELSE <<Slice(W, 1, n - 1)>>)
             \o SplitOn(Slice(W, n + 1, Len(W)), sep)

\* _get_city_by_code: the airport table, the code itself when unknown
GetCityByCode(code) ==
    CASE code = <<"HKG">> -> <<"Hong Kong">>
      [] code = <<"XIY">> -> <<"Xian">>
      [] code = <<"PEK">> -> <<"Beijing">>
      [] code = <<"PVG">> -> <<"Shanghai">>
      [] code = <<"CAN">> -> <<"Guangzhou">>
      [] code = <<"SZX">> -> <<"Shenzhen">>
      [] code = <<"MOW">> -> <<"Moscow">>
      [] OTHER            -> code

\* the cities of _find_city_in_text, in the order of its list
CityList == <<"Shenzhen", "Guangzhou", "Shanghai", "Beijing", "Tianjin",
              "Qingdao", "Moscow", "Novosibirsk", "Kazan", "Samara", "Omsk">>

\* _find_city_in_text: the first listed city that is a word of the text;
\* the empty text is a substring of every name, so it yields the first
\* city; then the country codes; None otherwise
FindCityInText(part) ==
    LET hits == {k \in 1..Len(CityList) : CityList[k] \in Range(part)}
    IN  IF hits # {} THEN <<CityList[Min(hits)]>>
        ELSE IF part = << >> THEN <<CityList[1]>>
        ELSE IF "KZ" \in Range(part) THEN <<"Kazakhstan">>
        ELSE IF "MZL" \in Range(part) THEN <<"Moscow">>
        ELSE << >>

ChineseCities == {"Shenzhen", "Guangzhou", "Shanghai", "Beijing", "Tianjin",
                  "Qingdao", "HKG", "Hong Kong", "XIY", "Xian", "PEK", "CAN",
                  "SHA"}
RussianCities == {"Moscow", "ru:Moskva", "Novosibirsk", "Kazan", "ru:Kazan",
                  "Samara", "Omsk", "SVO"}

\* _determine_country: the whole name must be in one of the lists
DetermineCountry(city) ==
    IF Len(city) = 1 /\ city[1] \in ChineseCities THEN "ru:Kitaj"
    ELSE IF Len(city) = 1 /\ city[1] \in RussianCities THEN "ru:Rossiya"
    ELSE "ru:Neizvestno"

\* number of digits of the first run of digits of a token
RunDigits(t) ==
    CASE t \in PureInt     -> NumDigits(t)
      [] t = "D1357"       -> 4
      [] OTHER             -> 1

\* float("a b".replace(' ', '')) of two whole numbers, in hundredths
Concat2(a, b) ==
    (DigitRun(a) * Pow10(NumDigits(b)) + DigitRun(b)) * 100

\* price_cny * 0.14
CnyToUsd(v) == (v * 14) \div 100

\* the value of the group (\d+(?:\s*\d+)?) that starts at i and is
\* followed by CNY
CnyNumberValue(W, i) ==
    IF SeqAt(W, i, <<PureInt, PureInt, {"CNY"}>>)
    THEN Concat2(W[i], W[i + 1])
    ELSE NumVal(W[i])

\* index after the group above
CnyNumberEnd(W, i) ==
    IF SeqAt(W, i, <<PureInt, PureInt, {"CNY"}>>) THEN i + 2 ELSE i + 1

\* float(re.sub(r'[^\d.,]', '', price_text).replace(',', '.')) of a group
\* given as tokens: no digit at all is float('') and raises ValueError;
\* whole numbers are concatenated; one number is itself.  (Other mixes do
\* not occur in a first group.)
CleanFloat(toks) ==
    LET ds == SelectSeq(toks, LAMBDA t : t \in DigitTok)
    IN  IF Len(ds) = 0 THEN [exc |-> "ValueError", v |-> 0]
        ELSE IF Len(ds) = 1 /\ ds[1] \in NumTok
             THEN [exc |-> "", v |-> NumVal(ds[1])]
        ELSE IF Len(ds) = 1
             THEN [exc |-> "", v |-> DigitRun(ds[1]) * 100]
        ELSE IF Len(ds) = 2 /\ ds[1] \in PureInt /\ ds[2] \in PureInt
             THEN [exc |-> "", v |-> Concat2(ds[1], ds[2])]
        ELSE [exc |-> "ValueError", v |-> 0]

\* the matches of one price pattern: [g |-> group(1), cur |-> currency
\* found in group(0)], in text order; at is a set of start indexes
PriceHits(at, G(_), cur) ==
    LET idx == SetToSeq(at)
    IN  [k \in 1..Len(idx) |-> [g |-> G(idx[k]), cur |-> cur]]

\* every match of every price pattern of the strategy, pattern by pattern
PriceMatches(name, T) ==
    LET W == Flat(T)
        I == 1..Len(W)
        one(i) == <<W[i]>>
    IN CASE name = "air_tariff" ->
            PriceHits({i \in I : SeqAt(W, i, <<NumTok, {"USD"}>>)
                                 \/ (SeqAt(W, i, <<NumTok, {"$"}>>)
                                     /\ i + 2 <= Len(W) /\ WordTok(W[i + 2]))},
                      one, "usd")
            \o PriceHits({i \in I : SeqAt(W, i, <<NumTok, {"RUB", "ru:rub"}>>)},
                         one, "rub")
            \o PriceHits({i \in I : SeqAt(W, i, <<NumTok, {"SD"}>>)},
                         one, "usd")
            \o PriceHits({i \in I : SeqAt(W, i - 1,
                                     <<{"|"}, NumTok, NumTok, NumTok, NumTok>>)},
                         one, "usd")
         [] name = "ftl_tariff" ->
            PriceHits({i \in I : SeqAt(W, i - 1,
                                     <<{"$"}, NumTok, {"per truck"}>>)},
                      one, "usd")
            \o PriceHits({i \in I : SeqAt(W, i,
                                     <<NumTok, {"USD", "$"}, {"per truck"}>>)},
                         one, "usd")
            \o PriceHits(ExwDashDashDollar(W, TRUE),
                         LAMBDA i :
                            LET d1 == NextIn(W, i + 1, DashTok)
                                d2 == NextIn(W, d1 + 1, DashTok)
                            IN  Slice(W, d1 + 1, d2 - 1),
                         "usd")
            \o PriceHits({i \in I : SeqAt(W, i,
                                     <<NumTok, {"USD", "$"}, {"per truck"}>>)},
                         one, "usd")
            \o PriceHits({i \in I : SeqAt(W, i,
                                     <<NumTok, {"ru:dollar"}, {"per truck"}>>)},
                         one, "usd")
            \o PriceHits({i \in I : /\ CnyNumberAt(W, i)
                                    /\ ~ SeqAt(W, i - 1,
                                               <<PureInt, PureInt, {"CNY"}>>)},
                         LAMBDA i : Slice(W, i, CnyNumberEnd(W, i) - 1), "usd")
            \o PriceHits(ExwColonCny(W),
                         LAMBDA i :
                            LET c == NextIn(W, i + 1, {":"})
                            IN  Slice(W, c + 1, CnyNumberEnd(W, c + 1) - 1),
                         "usd")
         [] name = "universal" ->
            LET usdAt == {i \in I : SeqAt(W, i, <<NumTok, {"USD"}>>)
                                    \/ (SeqAt(W, i, <<NumTok, {"$"}>>)
                                        /\ i + 2 <= Len(W)
                                        /\ WordTok(W[i + 2]))}
                rubAt == {i \in I : SeqAt(W, i, <<NumTok, {"RUB", "ru:rub"}>>)}
                idx   == SetToSeq(usdAt \cup rubAt)
            IN  [k \in 1..Len(idx) |->
                    [g |-> one(idx[k]),
                     cur |-> IF idx[k] \in usdAt THEN "usd" ELSE "rub"]]
         [] OTHER -> << >>

\* a handler that catches nothing
PricesCaughtNone == {}

\* the exceptions that the handler of the loop of _extract_prices catches:
\* except (ValueError, IndexError): continue
PricesCaught == {"ValueError", "IndexError"}

RECURSIVE FoldPrices(_, _, _)
\* the loop of _extract_prices over the matches: the first price of each
\* currency is kept; exc is the exception that left the loop, "" if none
FoldPrices(ms, k, acc) ==
    IF acc.exc # "" \/ k > Len(ms) THEN acc
    ELSE LET f == CleanFloat(ms[k].g)
         IN  IF f.exc # ""
             THEN IF f.exc \in PricesCaught
                  THEN FoldPrices(ms, k + 1, acc)
                  ELSE [acc EXCEPT !.exc = f.exc]
             ELSE IF ms[k].cur = "usd"
                  THEN FoldPrices(ms, k + 1,
                         IF acc.usd = << >> THEN [acc EXCEPT !.usd = <<f.v>>]
                         ELSE acc)
                  ELSE FoldPrices(ms, k + 1,
                         IF acc.rub = << >> THEN [acc EXCEPT !.rub = <<f.v>>]
                         ELSE acc)

\* _extract_prices
ExtractPrices(T, name) ==
    FoldPrices(PriceMatches(name, T), 1,
               [exc |-> "", usd |-> << >>, rub |-> << >>])

\* the first match of (?:NAME)[:\s]*CUR\s*(\d+(?:[.,]\d+)?), << >> if none
CostMatch(W, names, curs) ==
    LET hits == {i \in 1..Len(W) :
                    /\ W[i] \in names
                    /\ \/ SeqAt(W, i + 1, <<curs, StartsDigit>>)
                       \/ SeqAt(W, i + 1, <<{":"}, curs, StartsDigit>>)}
    IN  IF hits = {} THEN << >>
        ELSE LET i == Min(hits)
                 n == IF W[i + 1] = ":" THEN W[i + 3] ELSE W[i + 2]
             IN  IF n \in NumTok THEN <<NumVal(n)>>
                 ELSE <<DigitRun(n) * 100>>

\* one key of _extract_costs: the SD pattern first, then the USD one
CostOf(W, names) ==
    IF CostMatch(W, names, {"SD"}) # << >>
    THEN CostMatch(W, names, {"SD"})
    ELSE CostMatch(W, names, {"US", "USD"})

AirOriginTok == Code3 \cup {"Shenzhen", "Guangzhou", "Shanghai", "Beijing",
                            "Moscow", "Kazan", "Samara", "PARKING",
                            "STORAGE"}

AlnumTok == AirOriginTok \cup PureInt \cup {"KZ", "D1357"}

\* (\d+/\w+): a whole number, a slash and a word
VehTok == <<PureInt, {"/"}, AlnumTok \cup {"shpt"}>>

\* _extract_vehicle_type
ExtractVehicleType(T, name) ==
    LET W == Flat(T)
    IN  IF name = "air_tariff"
        THEN LET hits == {i \in 1..Len(W) : SeqAt(W, i, VehTok)}
             IN  IF hits = {} THEN << >>
                 ELSE Slice(W, Min(hits), Min(hits) + 2)
        ELSE IF name = "ftl_tariff"
        THEN LET hits == {i \in 1..Len(W) : W[i] = "tilt tautliner"}
             IN  IF hits = {} THEN << >> ELSE <<W[Min(hits)]>>
        ELSE << >>

(***************************************************************************)
(* _extract_air_routes                                                     *)
(***************************************************************************)
\* words that end in three Latin letters, and those letters
Suffix3(t) ==
    CASE t = "Shenzhen"  -> "hen"
      [] t = "Guangzhou" -> "hou"
      [] t = "Shanghai"  -> "hai"
      [] t = "Beijing"   -> "ing"
      [] t = "Moscow"    -> "cow"
      [] t = "Kazan"     -> "zan"
      [] t = "Samara"    -> "ara"
      [] t = "PARKING"   -> "ING"
      [] t = "STORAGE"   -> "AGE"
      [] OTHER           -> t

Num4 == <<NumTok, NumTok, NumTok, NumTok>>

\* the match of air pattern p (1..3) that starts at token i: the number of
\* tokens of the destination code (0 when there is no match) and the
\* number of tokens matched
AirMatch(W, i, p) ==
    LET head == SeqAt(W, i, <<AirOriginTok, {"-"}, Code3>>)
        bar  == IF p = 2 THEN <<{"|"}>> ELSE << >>
        long == p # 3 /\ head
                /\ SeqAt(W, i + 3, <<{"-"}, AlnumTok>> \o VehTok \o bar \o Num4)
        short == head /\ SeqAt(W, i + 3, VehTok \o bar \o Num4)
    IN  IF long THEN [dlen |-> 3, len |-> 12 + Len(bar)]
        ELSE IF short THEN [dlen |-> 1, len |-> 10 + Len(bar)]
        ELSE [dlen |-> 0, len |-> 0]

RECURSIVE ScanAir(_, _, _)
\* re.finditer of air pattern p from token i on: the start indexes of the
\* matches, which do not overlap
ScanAir(W, i, p) ==
    IF i > Len(W) THEN << >>
    ELSE IF AirMatch(W, i, p).len = 0 THEN ScanAir(W, i + 1, p)
    ELSE <<i>> \o ScanAir(W, i + AirMatch(W, i, p).len, p)

\* the route built from one match
AirRoute(W, i, p) ==
    LET m    == AirMatch(W, i, p)
        oc   == GetCityByCode(<<Suffix3(W[i])>>)
        dc   == GetCityByCode(Slice(W, i + 2, i + 1 + m.dlen))
        n1   == W[i + m.len - 4]
    IN  [origin_country |-> DetermineCountry(oc),
         origin_city |-> oc,
         destination_country |-> DetermineCountry(dc),
         destination_city |-> dc,
         price_rub |-> << >>,
         price_usd |-> IF NumVal(n1) # 0 THEN <<NumVal(n1)>> ELSE << >>,
         transit_time_days |-> << >>,
         pos |-> i]

\* _extract_air_routes: pattern by pattern, every match appended
ExtractAirRoutes(T) ==
    LET W == Flat(T)
        rts(p) == LET idx == ScanAir(W, 1, p)
                  IN  [k \in 1..Len(idx) |-> AirRoute(W, idx[k], p)]
    IN  rts(1) \o rts(2) \o rts(3)

(***************************************************************************)
(* _extract_ftl_routes                                                     *)
(***************************************************************************)
NoMatch == [ok |-> FALSE, end |-> 0, ng |-> 0, o |-> << >>, tr |-> << >>,
            d |-> << >>, price |-> << >>]

\* first number of a price text: re.search(r'(\d+(?:,\d+)?)', price_text)
FirstNumber(g) ==
    LET k == NextIn(g, 1, DigitTok)
    IN  IF k = 0 THEN << >> ELSE <<DigitRun(g[k]) * 100>>

\* first number of a CNY price text: re.search(r'(\d+(?:\s*\d+)?)', ...),
\* the spaces removed, converted to USD
FirstCnyNumber(g) ==
    LET k == NextIn(g, 1, DigitTok)
    IN  IF k = 0 THEN << >>
        ELSE IF g[k] \in PureInt \cup {"D1357"} /\ k < Len(g)
                /\ g[k + 1] \in StartsDigit
        THEN <<CnyToUsd((DigitRun(g[k]) * Pow10(RunDigits(g[k + 1]))
                         + DigitRun(g[k + 1])) * 100)>>
        ELSE <<CnyToUsd(DigitRun(g[k]) * 100)>>

\* the match of EXW pattern p (1..10) that starts at token i, with the
\* origin, transit and destination texts and the price the branch of the
\* loop body computes from the groups
FtlMatch(W, i, p) ==
    LET d1 == NextIn(W, i + 1, DashTok)
        d2 == IF d1 = 0 THEN 0 ELSE NextIn(W, d1 + 1, DashTok)
        d3 == IF d2 = 0 THEN 0 ELSE NextIn(W, d2 + 1, DashTok)
        c  == NextIn(W, i + 1, {":"})
        two == d1 > i + 1 /\ d2 > d1 + 1
    IN  IF i > Len(W) \/ W[i] # "EXW" THEN NoMatch
        ELSE CASE p = 1 ->
                IF two /\ SeqAt(W, d2 + 1, <<{"$"}, StartsDigit>>)
                THEN [ok |-> TRUE, end |-> d2 + 2, ng |-> 3,
                      o |-> Slice(W, i + 1, d1 - 1), tr |-> << >>,
                      d |-> Slice(W, d1 + 1, d2 - 1),
                      price |-> <<DigitRun(W[d2 + 2]) * 100>>]
                ELSE NoMatch
          [] p = 2 ->
                IF two /\ SeqAt(W, d2 + 1, <<{"$"}, PureInt, {"per truck"}>>)
                THEN [ok |-> TRUE, end |-> d2 + 3, ng |-> 3,
                      o |-> Slice(W, i + 1, d1 - 1), tr |-> << >>,
                      d |-> Slice(W, d1 + 1, d2 - 1),
                      price |-> <<DigitRun(W[d2 + 2]) * 100>>]
                ELSE NoMatch
          [] p = 3 ->
                IF two /\ d2 < Len(W) /\ W[d2 + 1] \notin DashTok
                THEN LET e == IF d3 = 0 THEN Len(W) ELSE d3 - 1
                         g == Slice(W, d2 + 1, e)
                     IN  [ok |-> TRUE, end |-> e, ng |-> 3,
                          o |-> Slice(W, i + 1, d1 - 1), tr |-> << >>,
                          d |-> Slice(W, d1 + 1, d2 - 1),
                          price |-> IF Has(g, {"$", "USD"}) THEN FirstNumber(g)
                                    ELSE IF Has(g, {"CNY"})
                                    THEN FirstCnyNumber(g)
                                    ELSE FirstNumber(g)]
                ELSE NoMatch
          [] p = 4 ->
                IF two /\ c > d2 + 1 /\ CnyNumberAt(W, c + 1)
                THEN [ok |-> TRUE, end |-> CnyNumberEnd(W, c + 1), ng |-> 4,
                      o |-> Slice(W, i + 1, d1 - 1),
                      tr |-> Slice(W, d1 + 1, d2 - 1),
                      d |-> Slice(W, d2 + 1, c - 1),
                      price |-> <<CnyToUsd(CnyNumberValue(W, c + 1))>>]
                ELSE NoMatch
          [] p = 5 ->
                IF c > i + 1 /\ CnyNumberAt(W, c + 1)
                THEN LET g == Slice(W, i + 1, c - 1)
                         k == NextIn(g, 1, DashTok)
                         n == Slice(W, c + 1, CnyNumberEnd(W, c + 1) - 1)
                     IN  [ok |-> TRUE, end |-> CnyNumberEnd(W, c + 1),
                          ng |-> 2,
                          o |-> IF k = 0 THEN g ELSE Slice(g, 1, k - 1),
                          tr |-> << >>,
                          d |-> IF k = 0 THEN n ELSE Slice(g, k + 1, Len(g)),
                          price |-> <<CnyToUsd(CnyNumberValue(W, c + 1))>>]
                ELSE NoMatch
          [] p = 6 ->
                IF d1 > i + 1 /\ c > d1 + 1 /\ CnyNumberAt(W, c + 1)
                THEN [ok |-> TRUE, end |-> CnyNumberEnd(W, c + 1), ng |-> 3,
                      o |-> Slice(W, i + 1, d1 - 1), tr |-> << >>,
                      d |-> Slice(W, d1 + 1, c - 1),
                      price |-> <<DigitRun(W[c + 1]) * 100>>]
                ELSE NoMatch
          [] OTHER -> NoMatch

RECURSIVE ScanFtl(_, _, _)
\* re.finditer of EXW pattern p from token i on: the start indexes
ScanFtl(W, i, p) ==
    IF i > Len(W) THEN << >>
    ELSE IF ~ FtlMatch(W, i, p).ok THEN ScanFtl(W, i + 1, p)
    ELSE <<i>> \o ScanFtl(W, FtlMatch(W, i, p).end + 1, p)

\* the origin parts and the destination parts of one match
FtlParts(m) ==
    LET oc == SplitOn(m.o, {"/"})
        dc == SplitOn(m.d, {"/"})
    IN  IF m.ng >= 4 /\ m.tr # << >>
        THEN LET f == FindCityInText(m.d)
             IN  [o |-> oc,
                  d |-> IF f # << >> THEN <<f>>
                        ELSE IF m.tr = <<"KZ">> THEN << <<"Kazakhstan">> >>
                        ELSE IF m.tr = <<"MZL">> THEN << <<"Moscow">> >>
                        ELSE IF FindCityInText(m.tr) # << >>
                        THEN <<FindCityInText(m.tr)>>
                        ELSE << >>]
        ELSE IF dc = << >> /\ Has(m.o, DashTok)
        THEN LET ps == SplitOn(m.o, DashTok)
             IN  [o |-> SplitOn(ps[1], {"/"}),
                  d |-> SplitOn(ps[Len(ps)], {"/"})]
        ELSE [o |-> oc, d |-> dc]

RECURSIVE FtlAppend(_, _, _, _, _)
\* the double loop over the origin parts and the destination parts of a
\* match: a route is appended when both cities are found and no route with
\* the same pair of cities is in the list yet
FtlAppend(routes, m, parts, k, pos) ==
    LET no == Len(parts.o)
        nd == Len(parts.d)
    IN  IF k > no * nd THEN routes
        ELSE LET oc == FindCityInText(parts.o[((k - 1) \div nd) + 1])
                 dc == FindCityInText(parts.d[((k - 1) % nd) + 1])
                 r  == [origin_country |-> DetermineCountry(oc),
                        origin_city |-> oc,
                        destination_country |-> DetermineCountry(dc),
                        destination_city |-> dc,
                        price_rub |-> << >>,
                        price_usd |-> m.price,
                        transit_time_days |-> << >>,
                        pos |-> pos]
                 dup == \E j \in 1..Len(routes) :
                            /\ routes[j].origin_city = oc
                            /\ routes[j].destination_city = dc
             IN  FtlAppend(IF oc # << >> /\ dc # << >> /\ ~ dup
                           THEN Append(routes, r) ELSE routes,
                           m, parts, k + 1, pos)

RECURSIVE FtlLoop(_, _, _, _)
\* the loops of _extract_ftl_routes: pattern p, its k-th match
FtlLoop(W, routes, p, k) ==
    IF p > 10 THEN routes
    ELSE LET idx == ScanFtl(W, 1, p)
         IN  IF k > Len(idx) THEN FtlLoop(W, routes, p + 1, 1)
             ELSE LET m == FtlMatch(W, idx[k], p)
                  IN  FtlLoop(W, FtlAppend(routes, m, FtlParts(m), 1, idx[k]),
                              p, k + 1)

\* _extract_ftl_routes
ExtractFtlRoutes(T) == FtlLoop(Flat(T), << >>, 1, 1)

(***************************************************************************)
(* _extract_routes, _apply_strategy, analyze_text                          *)
(***************************************************************************)
RECURSIVE ScanPairs(_, _)
\* re.finditer(r'([^-]+)\s*[-→]\s*([^-]+)', line) from token i on: each
\* match is the text up to a dash and the text after it up to the next
\* dash or the end of the line
ScanPairs(L, i) ==
    LET d == NextIn(L, i, DashTok)
        e == IF d = 0 THEN 0 ELSE NextIn(L, d + 1, DashTok)
        z == IF e = 0 THEN Len(L) ELSE e - 1
    IN  IF i > Len(L) \/ d = 0 \/ d = Len(L) THEN << >>
        ELSE IF d = i \/ z = d THEN ScanPairs(L, i + 1)
        ELSE <<[s |-> i, o |-> Slice(L, i, d - 1), d |-> Slice(L, d + 1, z)]>>
             \o ScanPairs(L, z + 1)

\* the matches of the route patterns of a strategy in one line, pattern by
\* pattern.  Only the first pattern of the universal strategy can match:
\* the others need one of the words FCL, LCL, RFCL, from, to, which no
\* line has.
LineRouteMatches(L, name) ==
    IF name = "universal" THEN ScanPairs(L, 1) ELSE << >>

RECURSIVE GeneralRoutes(_, _, _, _, _)
\* the general branch of _extract_routes: line by line; off is the number
\* of tokens before line k; every match becomes a route with the prices of
\* its line
GeneralRoutes(Ls, k, off, name, acc) ==
    IF acc.exc # "" \/ k > Len(Ls) THEN acc
    ELSE LET L  == Ls[k]
             ms == LineRouteMatches(L, name)
             pr == ExtractPrices(L, name)
             rs == [j \in 1..Len(ms) |->
                       [origin_country |-> DetermineCountry(ms[j].o),
                        origin_city |-> ms[j].o,
                        destination_country |-> DetermineCountry(ms[j].d),
                        destination_city |-> ms[j].d,
                        price_rub |-> pr.rub,
                        price_usd |-> pr.usd,
                        transit_time_days |-> << >>,
                        pos |-> off + ms[j].s]]
         IN  IF Len(ms) > 0 /\ pr.exc # ""
             THEN [acc EXCEPT !.exc = pr.exc]
             ELSE GeneralRoutes(Ls, k + 1, off + Len(L), name,
                                [acc EXCEPT !.routes = @ \o rs])

\* _extract_routes
ExtractRoutes(T, name) ==
    IF name = "air_tariff"
    THEN [exc |-> "", routes |-> ExtractAirRoutes(T)]
    ELSE IF name = "ftl_tariff"
    THEN [exc |-> "", routes |-> ExtractFtlRoutes(T)]
    ELSE GeneralRoutes(SplitLines(T), 1, 0, name,
                       [exc |-> "", routes |-> << >>])

TransportMapping(name) ==
    CASE name = "air_tariff"  -> "air"
      [] name = "ftl_tariff"  -> "auto"
      [] name = "sea_tariff"  -> "sea"
      [] name = "rail_tariff" -> "rail"
      [] OTHER                -> "auto"

\* what every analysis returns: the fields of the result that some path
\* assigns (the other keys of the dict stay None throughout)
EmptyResult ==
    [transport_type |-> "", basis |-> "", routes |-> << >>,
     vehicle_type |-> << >>, price_rub |-> << >>, price_usd |-> << >>,
     car_parking_cost |-> << >>, handling_cost |-> << >>,
     declaration_cost |-> << >>, registration_cost |-> << >>,
     error |-> ""]

\* _apply_strategy; exc is the exception that escapes, "" when it returns
ApplyStrategy(T, name) ==
    LET rt == ExtractRoutes(T, name)
        pr == ExtractPrices(T, name)
        W  == Flat(T)
    IN  IF rt.exc # "" THEN [exc |-> rt.exc, val |-> EmptyResult]
        ELSE IF pr.exc # "" THEN [exc |-> pr.exc, val |-> EmptyResult]
        ELSE [exc |-> "",
              val |-> [EmptyResult EXCEPT
                        !.transport_type = TransportMapping(name),
                        !.basis = "EXW",
                        !.routes = rt.routes,
                        !.price_usd = pr.usd,
                        !.price_rub = pr.rub,
                        !.car_parking_cost = CostOf(W, {"PARKING"}),
                        !.handling_cost = CostOf(W, {"HANDLING"}),
                        !.declaration_cost = CostOf(W, {"DECLARATION"}),
                        !.registration_cost = CostOf(W, {"REGISTRATION"}),
                        !.vehicle_type = ExtractVehicleType(T, name)]]

\* analyze_text on a fresh analyzer (analyze_tariff_text_adaptive): the
\* format is detected, then the strategy applied; nothing is caught here
AnalyzeText(T) == ApplyStrategy(T, DetectFormat(T))

(***************************************************************************)
(* ContextAnalyzer.  A city name is a sequence of tokens; the characters   *)
(* the cleaning deletes leave no trace, except that a deleted "/" joins    *)
(* its two neighbours into one word and therefore stays in the name as     *)
(* the mark of the join (it counts for no character).                      *)
(***************************************************************************)
CyrWord == {"ru:Moskva", "ru:Kazan", "ru:Shanhaj", "ru:tarif", "ru:rub",
            "ru:samolet",
            "ru:moskva", "ru:kazan", "ru:shanhaj"}

\* Cyrillic words that begin with a capital letter
CyrCapWord == {"ru:Moskva", "ru:Kazan", "ru:Shanhaj"}

\* tokens written next to their neighbours without a space
Glue == {"/", "-", " - "}

\* len() of a token inside a cleaned name
TokLen(t) ==
    CASE t = "/" -> 0
      [] t \in {"-"} -> 1
      [] t \in {"78", "50", "KZ"} -> 2
      [] t \in {" - ", "EXW", "HKG", "PEK", "CNY", "USD", "100", "600",
                "375", "ru:rub"} -> 3
      [] t \in {"shpt", "9500", "8.90", "5.50", "4.85", "4.57", "Xian",
                "Omsk"} -> 4
      [] t \in {"Kazan", "kazan", "D1357", "15000", "ru:tarif"} -> 5
      [] t \in {"Moscow", "moscow", "Samara", "ru:Moskva", "ru:Kazan",
                "ru:Shanhaj", "ru:moskva", "ru:kazan", "ru:shanhaj"} -> 6
      [] t \in {"Beijing", "beijing", "PARKING", "Tianjin", "Qingdao",
                "ru:samolet", "STORAGE"} -> 7
      [] t \in {"Shenzhen", "shenzhen", "Shanghai", "shanghai"} -> 8
      [] t \in {"Guangzhou", "guangzhou", "per truck", "Hong Kong"} -> 9
      [] t = "Kazakhstan" -> 10
      [] t = "Novosibirsk" -> 11
      [] OTHER -> 1

RECURSIVE NameLen(_)
\* len(city) of a name: its tokens and the single spaces between them
NameLen(n) ==
    IF Len(n) = 0 THEN 0
    ELSE TokLen(n[1])
         + (IF Len(n) > 1 /\ n[1] \notin Glue /\ n[2] \notin Glue
            THEN 1 ELSE 0)
         + NameLen(Tail(n))

\* the tokens in which one of the technical terms of skip_words /
\* invalid_terms occurs ('truck' in "per truck"; no other token of the
\* texts holds 'ce', 'com', 'sea', 'air', 'port', '05', ...)
CtxSkipTok == {"per truck"}

\* the characters deleted by re.sub(r'[^\w\s\-\.]', ...)
CtxRemoved == {"$", ":", "|"}

\* str.isdigit() of a name
IsDigitName(n) ==
    /\ Len(n) >= 1
    /\ \A k \in 1..Len(n) : n[k] \in PureInt \cup {"/"}
    /\ \E k \in 1..Len(n) : n[k] \in PureInt
    /\ \A k \in 1..(Len(n) - 1) : n[k] = "/" \/ n[k + 1] = "/"

\* ContextAnalyzer._clean_city_name
CtxCleanCityName(city) ==
    LET n == SelectSeq(city, LAMBDA t : t \notin CtxRemoved \cup {NL})
    IN  IF city = << >> THEN << >>
        ELSE IF \E k \in 1..Len(city) : city[k] \in CtxSkipTok THEN << >>
        ELSE IF NameLen(n) < 2 \/ NameLen(n) > 50 THEN << >>
        ELSE n

\* _is_valid_city
IsValidCity(city) ==
    /\ city # << >>
    /\ NameLen(city) >= 2
    /\ ~IsDigitName(city)
    /\ \A k \in 1..Len(city) : city[k] \notin CtxSkipTok

\* _extract_city_from_text: here the deleted characters become spaces, so
\* a "/" separates its neighbours
ExtractCityFromText(part) ==
    LET n == SelectSeq(part, LAMBDA t : t \notin CtxRemoved \cup {NL, "/"})
    IN  IF part = << >> THEN << >>
        ELSE IF IsValidCity(n) THEN n
        ELSE << >>

\* the city lists of _get_country_by_city and _extract_by_keywords, in the
\* order of the source, restricted to the names the texts can spell
CtxChineseCities == <<"guangzhou", "ru:shanhaj", "shanghai", "beijing",
                      "shenzhen">>
CtxRussianCities == <<"ru:moskva", "moscow", "ru:kazan", "kazan">>

\* str.lower() of a token
Lower(t) ==
    CASE t = "Guangzhou"  -> "guangzhou"
      [] t = "Shanghai"   -> "shanghai"
      [] t = "Beijing"    -> "beijing"
      [] t = "Shenzhen"   -> "shenzhen"
      [] t = "Moscow"     -> "moscow"
      [] t = "Kazan"      -> "kazan"
      [] t = "ru:Moskva"  -> "ru:moskva"
      [] t = "ru:Kazan"   -> "ru:kazan"
      [] t = "ru:Shanhaj" -> "ru:shanhaj"
      [] OTHER            -> t

\* _get_country_by_city: the whole lower-cased name must be in a list
GetCountryByCity(city) ==
    IF city = << >> THEN "ru:Neizvestno"
    ELSE IF Len(city) = 1 /\ Lower(city[1]) \in Range(CtxChineseCities)
    THEN "ru:Kitaj"
    ELSE IF Len(city) = 1 /\ Lower(city[1]) \in Range(CtxRussianCities)
    THEN "ru:Rossiya"
    ELSE "ru:Neizvestno"

(***************************************************************************)
(* currency_patterns: for a currency, the patterns in the order of the     *)
(* source; Hits gives the values of the matches of one pattern in text     *)
(* order (line breaks are whitespace).                                     *)
(***************************************************************************)
CurrencyPatterns(cur) ==
    CASE cur = "usd" -> << <<{"USD"}, NumTok>>, <<NumTok, {"USD"}>>,
                           <<{"$"}, NumTok>>, <<NumTok, {"$"}>>,
                           <<NumTok, {"ru:doll"}>>, <<NumTok, {"dollar"}>> >>
      [] cur = "cny" -> << <<{"CNY"}, NumTok>>, <<NumTok, {"CNY"}>>,
                           <<{"RMB"}, NumTok>>, <<NumTok, {"RMB"}>>,
                           <<{"Y="}, NumTok>>, <<NumTok, {"Y="}>>,
                           <<NumTok, {"ru:yuan"}>> >>
      [] OTHER       -> << <<{"RUB"}, NumTok>>, <<NumTok, {"RUB"}>>,
                           <<{"P="}, NumTok>>, <<NumTok, {"P="}>>,
                           <<NumTok, {"ru:rub"}>>, <<NumTok, {"ru:rubl"}>> >>

Currencies == <<"usd", "cny", "rub">>

\* float(match.group(1)) of every match of a pattern, in text order
Hits(W, pat) ==
    LET idx == SetToSeq({i \in 1..Len(W) : SeqAt(W, i, pat)})
    IN  [k \in 1..Len(idx) |->
            IF pat[1] = NumTok THEN NumVal(W[idx[k]])
            ELSE NumVal(W[idx[k] + 1])]

RECURSIVE LastWins(_, _, _, _)
\* the loops of _extract_prices_near_text for one currency: every match of
\* every pattern overwrites the price
LastWins(W, pats, k, acc) ==
    IF k > Len(pats) THEN acc
    ELSE LET h == Hits(W, pats[k])
         IN  LastWins(W, pats, k + 1,
                      IF Len(h) = 0 THEN acc ELSE <<h[Len(h)]>>)

RECURSIVE FirstOfLast(_, _, _, _)
\* the loops of _extract_prices_from_parts for one part and one currency:
\* the first match (re.search) of every matching pattern overwrites
FirstOfLast(W, pats, k, acc) ==
    IF k > Len(pats) THEN acc
    ELSE LET h == Hits(W, pats[k])
         IN  FirstOfLast(W, pats, k + 1,
                         IF Len(h) = 0 THEN acc ELSE <<h[1]>>)

\* the largest match of any pattern (_extract_prices_from_text)
MaxOfAll(W, pats) ==
    LET vs == UNION {Range(Hits(W, pats[k])) : k \in 1..Len(pats)}
    IN  IF vs = {} THEN << >>
        ELSE <<CHOOSE v \in vs : \A u \in vs : u <= v>>

\* _extract_prices_near_text: the 200 characters around a match cover the
\* whole of a text of at most three lines
ExtractPricesNearText(T) ==
    [cur \in Range(Currencies) |->
        LastWins(Flat(T), CurrencyPatterns(cur), 1, << >>)]

\* _extract_prices_from_text
ExtractPricesFromText(T) ==
    [cur \in Range(Currencies) |-> MaxOfAll(Flat(T), CurrencyPatterns(cur))]

RECURSIVE PartsPrice(_, _, _, _)
PartsPrice(parts, k, cur, acc) ==
    IF k > Len(parts) THEN acc
    ELSE PartsPrice(parts, k + 1, cur,
                    FirstOfLast(parts[k], CurrencyPatterns(cur), 1, acc))

\* _extract_prices_from_parts
ExtractPricesFromParts(parts) ==
    [cur \in Range(Currencies) |-> PartsPrice(parts, 1, cur, << >>)]

(***************************************************************************)
(* _analyze_document_context                                               *)
(***************************************************************************)
TransportTypes == <<"air", "sea", "rail", "auto", "multimodal">>

\* the tokens of a text, and the file names, in which a keyword of
\* transport_indicators occurs (once each)
TransportIndicatorTok(tr) ==
    CASE tr = "air"  -> {"air.pdf"}
      [] tr = "sea"  -> {"sea.pdf"}
      [] tr = "rail" -> {"rail.pdf"}
      [] tr = "auto" -> {"per truck", "truck.pdf"}
      [] OTHER       -> {"multi.pdf"}

\* the file names a caller passes
FilePaths == {"", "air.pdf", "mmp.pdf"}

Count(W, S) == Cardinality({i \in 1..Len(W) : W[i] \in S})

TransportScore(T, file_path, tr) ==
    Count(T, TransportIndicatorTok(tr))
    + (IF file_path \in TransportIndicatorTok(tr) THEN 10 ELSE 0)

\* max(scores, key=scores.get): the first type with the largest score
BestTransport(T, file_path) ==
    LET sc(k) == TransportScore(T, file_path, TransportTypes[k])
        best  == Min({k \in 1..5 : \A j \in 1..5 : sc(j) <= sc(k)})
    IN  [type  |-> IF sc(best) > 0 THEN TransportTypes[best] ELSE "auto",
         score |-> sc(best)]

\* no token is a number followed by a dot, so the numbered-list pattern
\* \d+\.\s+ never matches
StructureType(T) ==
    IF Count(T, {"|"}) > 5 THEN "tabular"
    ELSE IF ExistsSeq(Flat(T), <<CyrCapWord, DashTok, CyrCapWord>>)
    THEN "route_list"
    ELSE "free_text"

\* confidence is min(score / 10, 1.0), kept in hundredths
AnalyzeDocumentContext(T, file_path) ==
    LET b == BestTransport(T, file_path)
    IN  [transport_type |-> b.type,
         confidence |-> IF b.score >= 10 THEN 100 ELSE b.score * 10,
         structure_type |-> StructureType(T)]

\* ExtractedRoute; pos is where the match that produced it begins
CtxRoute(oc, dc, tr, prices, at) ==
    [origin_city |-> oc, origin_country |-> GetCountryByCity(oc),
     destination_city |-> dc, destination_country |-> GetCountryByCity(dc),
     transport_type |-> tr, basis |-> "EXW",
     price_usd |-> prices["usd"], price_cny |-> prices["cny"],
     price_rub |-> prices["rub"], transit_time |-> << >>,
     vehicle_type |-> "ru:Tent 20t 82m3", container_type |-> << >>,
     weight_limit |-> << >>, pos |-> at]

RECURSIVE SplitKeep(_, _)
\* line.split('|'): the empty parts are kept
SplitKeep(W, sep) ==
    LET n == NextIn(W, 1, sep)
    IN  IF n = 0 THEN <<W>>
        ELSE <<Slice(W, 1, n - 1)>> \o SplitKeep(Slice(W, n + 1, Len(W)), sep)

RECURSIVE TableLoop(_, _, _, _)
\* _extract_from_table: one route per line with two valid first cells;
\* nothing is compared with the routes already found
TableLoop(Ls, k, off, tr) ==
    IF k > Len(Ls) THEN << >>
    ELSE LET L     == Ls[k]
             parts == SplitKeep(L, {"|"})
             oc    == ExtractCityFromText(parts[1])
             dc    == ExtractCityFromText(parts[2])
             rest  == TableLoop(Ls, k + 1, off + Len(L) + 1, tr)
         IN  IF "|" \notin Range(L) \/ NameLen(L) < 5 \/ Len(parts) < 2
             THEN rest
             ELSE IF oc # << >> /\ dc # << >>
             THEN <<CtxRoute(oc, dc, tr,
                        ExtractPricesFromParts(Slice(parts, 3, Len(parts))),
                        off + 1)>> \o rest
             ELSE rest

ExtractFromTable(T, tr) == TableLoop(SplitLines(T), 1, 0, tr)

\* the end of the run of Cyrillic words that begins at i (line breaks are
\* whitespace inside a run)
RECURSIVE RunEnd(_, _)
RunEnd(W, i) ==
    IF i + 1 <= Len(W) /\ W[i + 1] \in CyrWord THEN RunEnd(W, i + 1) ELSE i

RECURSIVE ScanRouteList(_, _)
\* finditer of (words) dash (words), IGNORECASE: the matches as
\* [a, b, c] with the words W[a..b-1] and W[b+1..c]
ScanRouteList(W, i) ==
    IF i > Len(W) THEN << >>
    ELSE IF W[i] \notin CyrWord THEN ScanRouteList(W, i + 1)
    ELSE LET e == RunEnd(W, i)
         IN  IF SeqAt(W, e + 1, <<DashTok, CyrWord>>)
             THEN <<[a |-> i, b |-> e + 1, c |-> RunEnd(W, e + 2)]>>
                  \o ScanRouteList(W, RunEnd(W, e + 2) + 1)
             ELSE ScanRouteList(W, e + 1)

\* _extract_from_route_list
ExtractFromRouteList(T, tr) ==
    LET W  == Flat(T)
        ms == ScanRouteList(W, 1)
        r(k) == LET oc == CtxCleanCityName(Slice(W, ms[k].a, ms[k].b - 1))
                    dc == CtxCleanCityName(Slice(W, ms[k].b + 1, ms[k].c))
                IN  IF oc # << >> /\ dc # << >>
                    THEN <<CtxRoute(oc, dc, tr, ExtractPricesNearText(T),
                                    ms[k].a)>>
                    ELSE << >>
        F[k \in 0..Len(ms)] == IF k = 0 THEN << >> ELSE F[k - 1] \o r(k)
    IN  F[Len(ms)]

(***************************************************************************)
(* _extract_from_free_text.  Of its five patterns only the EXW pattern     *)
(* can match a text of the free_text structure: the other four begin with  *)
(* a Cyrillic word followed by a dash or an arrow, and a text that has     *)
(* one is a route list or a table.                                         *)
(***************************************************************************)
\* the EXW pattern tried at the token e: g1 runs to the first "/", g2 and
\* g3 to the next dashes (line breaks included), then $, a number and
\* "per truck"
ExwAttempt(T, e) ==
    LET s  == NextIn(T, e + 1, {"/"})
        d1 == IF s = 0 THEN 0 ELSE NextIn(T, s + 1, DashTok)
        d2 == IF d1 = 0 THEN 0 ELSE NextIn(T, d1 + 1, DashTok)
    IN  [ok |-> /\ T[e] = "EXW"
                /\ s > e + 1 /\ d1 > s + 1 /\ d2 > d1 + 1
                /\ SeqAt(T, d2 + 1, <<{"$"}, NumTok, {"per truck"}>>),
         e |-> e, s |-> s, d1 |-> d1, d2 |-> d2]

RECURSIVE ScanExw(_, _)
\* finditer of the EXW pattern
ScanExw(T, i) ==
    IF i > Len(T) THEN << >>
    ELSE IF ExwAttempt(T, i).ok
    THEN <<ExwAttempt(T, i)>> \o ScanExw(T, ExwAttempt(T, i).d2 + 4)
    ELSE ScanExw(T, i + 1)

NoPrices == [cur \in Range(Currencies) |-> << >>]

\* the routes of one EXW match: one per origin, the destination shared
ExwRoutes(T, m, tr) ==
    LET dc    == CtxCleanCityName(Slice(T, m.d1 + 1, m.d2 - 1))
        price == [NoPrices EXCEPT !["usd"] = <<NumVal(T[m.d2 + 2])>>]
        r(g)  == LET oc == CtxCleanCityName(g)
                 IN  IF IsValidCity(oc) /\ IsValidCity(dc)
                     THEN <<CtxRoute(oc, dc, tr, price, m.e)>>
                     ELSE << >>
    IN  r(Slice(T, m.e + 1, m.s - 1)) \o r(Slice(T, m.s + 1, m.d1 - 1))

\* the listed cities that occur in the text, in the order of the list
FoundCities(T, list) ==
    SelectSeq(list, LAMBDA c : \E i \in 1..Len(T) : Lower(T[i]) = c)

\* _extract_by_keywords: the first Chinese city found, paired with the
\* first two Russian cities found; pos is 0, there being no match
ExtractByKeywords(T, tr) ==
    LET fc == FoundCities(T, CtxChineseCities)
        fr == FoundCities(T, CtxRussianCities)
        pr == ExtractPricesFromText(T)
        r(k) == LET oc == CtxCleanCityName(<<fc[1]>>)
                    dc == CtxCleanCityName(<<fr[k]>>)
                IN  IF oc # << >> /\ dc # << >>
                    THEN <<CtxRoute(oc, dc, tr, pr, 0)>> ELSE << >>
    IN  IF fc = << >> \/ fr = << >> THEN << >>
        ELSE IF Len(fr) = 1 THEN r(1)
        ELSE r(1) \o r(2)

RECURSIVE Unique(_, _)
\* the duplicate filter at the end of _extract_from_free_text
Unique(routes, seen) ==
    IF routes = << >> THEN << >>
    ELSE LET key == <<routes[1].origin_city, routes[1].destination_city>>
         IN  IF key \in seen THEN Unique(Tail(routes), seen)
             ELSE <<routes[1]>> \o Unique(Tail(routes), seen \cup {key})

ExtractFromFreeText(T, tr) ==
    LET ms == ScanExw(T, 1)
        F[k \in 0..Len(ms)] ==
            IF k = 0 THEN << >> ELSE F[k - 1] \o ExwRoutes(T, ms[k], tr)
        routes == IF F[Len(ms)] = << >> THEN ExtractByKeywords(T, tr)
                  ELSE F[Len(ms)]
    IN  Unique(routes, {})

\* _extract_structured_data picks the extraction by structure
CtxExtractRoutes(T, ctx) ==
    CASE ctx.structure_type = "tabular" ->
             ExtractFromTable(T, ctx.transport_type)
      [] ctx.structure_type = "route_list" ->
             ExtractFromRouteList(T, ctx.transport_type)
      [] OTHER -> ExtractFromFreeText(T, ctx.transport_type)

\* _extract_basis: the first of the five terms that is a word of the text
ExtractBasis(T) ==
    LET bs   == <<"EXW", "FOB", "CIF", "DAP", "DDP">>
        hits == {k \in 1..5 : bs[k] \in Range(T)}
    IN  IF hits = {} THEN "EXW" ELSE bs[Min(hits)]

\* _extract_additional_costs: keyword, colons or spaces, number; the
\* result as a set of <<key, amount>>
ExtractAdditionalCosts(T) ==
    LET W == Flat(T)
        at(w) == {i \in 1..Len(W) :
                     \/ SeqAt(W, i, <<{w}, NumTok>>)
                     \/ SeqAt(W, i, <<{w}, {":"}, NumTok>>)}
        val(w) == LET i == Min(at(w))
                  IN  IF W[i + 1] = ":" THEN NumVal(W[i + 2])
                      ELSE NumVal(W[i + 1])
        keys == {<<"parking", "PARKING">>, <<"handling", "HANDLING">>,
                 <<"declaration", "DECLARATION">>,
                 <<"registration", "REGISTRATION">>}
    IN  {<<k[1], val(k[2])>> : k \in {q \in keys : at(q[2]) # {}}}

\* the skip_terms of _validate_and_clean_data that occur in a token
SkipTermsOf(t) ==
    CASE t = "USD"     -> {"usd", "sd"}
      [] t = "PARKING" -> {"parking"}
      [] t = "shpt"    -> {"shpt"}
      [] t = "HKG"     -> {"kg"}
      [] OTHER         -> {}

TermCount(n) == Cardinality(UNION {SkipTermsOf(n[k]) : k \in 1..Len(n)})

\* the tests of _validate_and_clean_data that a route must pass
CtxKeep(r) ==
    /\ r.origin_city # r.destination_city
    /\ NameLen(r.origin_city) >= 2 /\ NameLen(r.destination_city) >= 2
    /\ ~IsDigitName(r.origin_city) /\ ~IsDigitName(r.destination_city)
    /\ TermCount(r.origin_city) <= 2 /\ TermCount(r.destination_city) <= 2
    /\ NameLen(r.origin_city) <= 50 /\ NameLen(r.destination_city) <= 50

\* _validate_and_clean_data: the routes that pass, in their order, all of
\* them; a key the dict lacks reads as "" here
ValidateAndCleanData(routes, T, ctx) ==
    [routes |-> SelectSeq(routes, CtxKeep),
     transport_type |-> ctx.transport_type,
     basis |-> ExtractBasis(T),
     additional_costs |-> ExtractAdditionalCosts(T),
     context_confidence |-> ctx.confidence,
     structure_type |-> ctx.structure_type,
     error |-> ""]

\* _fallback_analysis
FallbackAnalysis ==
    [routes |-> << >>, transport_type |-> "auto", basis |-> "EXW",
     additional_costs |-> {}, context_confidence |-> 0,
     structure_type |-> "unknown", error |-> "Fallback analysis used"]

\* the exceptions the handler of analyze_with_context catches (Exception)
ContextCaught == {"ValueError", "IndexError", "KeyError", "AttributeError",
                  "TypeError"}

\* the body of the try block of analyze_with_context: none of its steps
\* raises on a text (every float() is given a matched number)
ContextBody(T, file_path) ==
    LET ctx == AnalyzeDocumentContext(T, file_path)
    IN  [exc |-> "",
         val |-> ValidateAndCleanData(CtxExtractRoutes(T, ctx), T, ctx)]

\* analyze_with_context
AnalyzeWithContext(T, file_path) ==
    LET b == ContextBody(T, file_path)
    IN  IF b.exc \in ContextCaught
        THEN [exc |-> "", val |-> FallbackAnalysis]
        ELSE b


(***************************************************************************)
(* UniversalAnalyzer.                                                      *)
(***************************************************************************)
\* the keywords of transport_keywords that occur in a token of the texts
UniKeywordsOf(t) ==
    CASE t = "HKG"       -> [type |-> "air", word |-> "hkg"]
      [] t = "PEK"       -> [type |-> "air", word |-> "pek"]
      [] t = "Shanghai"  -> [type |-> "air", word |-> "sha"]
      [] t = "per truck" -> [type |-> "auto", word |-> "truck"]
      [] OTHER           -> [type |-> "", word |-> ""]

UniTransportTypes == <<"air", "sea", "rail", "auto", "multimodal", "ltl">>

\* determine_transport_type: the file name first, then the number of the
\* keywords of each type that occur in the text
DetermineTransportType(T, file_path) ==
    LET sc(k) == Cardinality({UniKeywordsOf(T[i]).word : i \in
                     {j \in 1..Len(T) :
                         UniKeywordsOf(T[j]).type = UniTransportTypes[k]}})
        best  == Min({k \in 1..6 : \A j \in 1..6 : sc(j) <= sc(k)})
    IN  IF file_path = "mmp.pdf" THEN "multimodal"
        ELSE IF sc(best) > 0 THEN UniTransportTypes[best]
        ELSE "auto"

\* determine_basis: the first basis whose keyword occurs in the text
DetermineBasis(T) ==
    LET bs   == <<"EXW", "FCA", "CPT", "CIP", "DAP", "DPU", "DDP", "FAS",
                  "FOB", "CFR", "CIF">>
        hits == {k \in 1..Len(bs) : bs[k] \in Range(T)}
    IN  IF hits = {} THEN "EXW" ELSE bs[Min(hits)]

PartsToRemove == {"vvo", "vyp", "com", "port", "terminal", "station",
                  "border", "customs", "gate", "checkpoint", "vladvistok"}

UniSkipWords == {"sea", "air", "rail", "auto", "05", "com", "pol", "pod",
                 "fcl", "ltl", "ftl"}

\* UniversalAnalyzer._clean_city_name: the characters other than letters,
\* digits, dashes and dots become spaces, the service words go, the spaces
\* are squeezed
CleanCityName(city) ==
    LET n == SelectSeq(city, LAMBDA t :
                 /\ t \notin CtxRemoved \cup {NL, "/"}
                 /\ Lower(t) \notin PartsToRemove)
    IN  IF city = << >> THEN << >>
        ELSE IF Len(n) = 1 /\ Lower(n[1]) \in UniSkipWords THEN << >>
        ELSE IF NameLen(n) < 2 THEN << >>
        ELSE n

\* the tests of clean_routes on the cleaned names of a route
UniKeep(o, d) ==
    /\ o # << >> /\ d # << >>
    /\ o # d
    /\ "ru:Neizvestno" \notin Range(o) \cup Range(d)
    /\ NameLen(o) >= 2 /\ NameLen(d) >= 2
    /\ ~(Len(o) = 1 /\ o[1] \in NumTok) /\ ~(Len(d) = 1 /\ d[1] \in NumTok)
    /\ ~(Len(o) = 1 /\ Lower(o[1]) \in
             UniSkipWords \cup {"ru:morskoj", "ru:avia", "ru:zhd", "ru:avto",
                                "port", "terminal"})
    /\ ~(Len(d) = 1 /\ Lower(d[1]) \in
             UniSkipWords \cup {"ru:morskoj", "ru:avia", "ru:zhd", "ru:avto",
                                "port", "terminal"})

\* the route object k of the list after clean_routes has run: a kept route
\* has its two city fields overwritten with the cleaned names
CleanedRoute(r) ==
    LET o == CleanCityName(r.origin_city)
        d == CleanCityName(r.destination_city)
    IN  IF r.origin_city # << >> /\ r.destination_city # << >> /\ UniKeep(o, d)
        THEN [kept |-> TRUE,
              route |-> [r EXCEPT !.origin_city = o, !.destination_city = d]]
        ELSE [kept |-> FALSE, route |-> r]

\* the returned list is cut to this many routes
MaxRoutes == 10

\* clean_routes: objs are the objects of the list it received as the call
\* leaves them, routes is the list it returns
CleanRoutes(routes) ==
    LET c    == [k \in 1..Len(routes) |-> CleanedRoute(routes[k])]
        kept == SelectSeq(c, LAMBDA x : x.kept)
        list == [k \in 1..Len(kept) |-> kept[k].route]
    IN  [objs   |-> [k \in 1..Len(routes) |-> c[k].route],
         routes |-> IF Len(list) > MaxRoutes THEN SubSeq(list, 1, MaxRoutes)
                    ELSE list]

\* analyze_file once the analysis of the text has returned r: the
\* transport type and the basis are set and the routes cleaned; received
\* are the route objects handed to clean_routes, before and after the call
AnalyzeFileOf(r, c, T, file_path) ==
    IF r.exc # ""
    THEN [exc |-> r.exc, val |-> r.val,
          received |-> [before |-> << >>, after |-> << >>]]
    ELSE [exc |-> "",
          val |-> [r.val EXCEPT
                     !.transport_type = DetermineTransportType(T, file_path),
                     !.basis = DetermineBasis(T),
                     !.routes = c.routes],
          received |-> [before |-> r.val.routes, after |-> c.objs]]

\* clean_routes of the routes of a result
CleanRoutesOf(r) == CleanRoutes(r.val.routes)

AnalyzeFileWith(r, T, file_path) ==
    AnalyzeFileOf(r, CleanRoutesOf(r), T, file_path)

\* analyze_file for a file that goes to the adaptive analysis (the other
\* transport types go to the per-transport analyzers)
AnalyzeFile(T, file_path) == AnalyzeFileWith(AnalyzeText(T), T, file_path)


(***************************************************************************)
(* LLMParser (parser.py).  A value of the JSON the model answers with is   *)
(* None [kind |-> "none"], a number [kind |-> "num", num |-> n] with n in  *)
(* hundredths, or a string [kind |-> "str", str |-> its characters].       *)
(***************************************************************************)
Digit == {"0", "1", "2", "3", "4", "5", "6", "7", "8", "9"}

DigitVal(c) ==
    CASE c = "1" -> 1 [] c = "2" -> 2 [] c = "3" -> 3 [] c = "4" -> 4
      [] c = "5" -> 5 [] c = "6" -> 6 [] c = "7" -> 7 [] c = "8" -> 8
      [] c = "9" -> 9 [] OTHER -> 0

RECURSIVE IntOf(_)
\* the number a sequence of digits writes
IntOf(s) ==
    IF Len(s) = 0 THEN 0
    ELSE IntOf(SubSeq(s, 1, Len(s) - 1)) * 10 + DigitVal(s[Len(s)])

\* str.strip()
RECURSIVE Strip(_)
Strip(s) ==
    IF Len(s) > 0 /\ s[1] = " " THEN Strip(Tail(s))
    ELSE IF Len(s) > 0 /\ s[Len(s)] = " "
    THEN Strip(SubSeq(s, 1, Len(s) - 1))
    ELSE s

\* float(s) of a string of digits, dots and minus signs: [ok, v], v in
\* hundredths (digits after the second decimal are dropped); not ok is
\* ValueError
FloatOf(s) ==
    LET neg  == Len(s) > 0 /\ s[1] = "-"
        body == IF neg THEN Tail(s) ELSE s
        dots == {i \in 1..Len(body) : body[i] = "."}
        dot  == IF dots = {} THEN Len(body) + 1 ELSE Min(dots)
        ip   == SubSeq(body, 1, dot - 1)
        fp   == SubSeq(body, dot + 1, Len(body))
        frac == IF Len(fp) = 0 THEN 0
                ELSE IF Len(fp) = 1 THEN DigitVal(fp[1]) * 10
                ELSE DigitVal(fp[1]) * 10 + DigitVal(fp[2])
        ok   == /\ \A i \in 1..Len(body) : body[i] \in Digit \cup {"."}
                /\ Cardinality(dots) <= 1
                /\ Len(ip) + Len(fp) >= 1
        mag  == IntOf(ip) * 100 + frac
    IN  [ok |-> ok, v |-> IF ~ok THEN 0 ELSE IF neg THEN 0 - mag ELSE mag]

\* re.sub(r'[^\d.,]', '', s).replace(',', '.')
KeepNumeric(s) ==
    LET k == SelectSeq(s, LAMBDA c : c \in Digit \cup {".", ","})
    IN  [i \in 1..Len(k) |-> IF k[i] = "," THEN "." ELSE k[i]]

\* re.sub(r'[^\d.,\-]', '', s).replace(',', '.')
KeepNumericMinus(s) ==
    LET k == SelectSeq(s, LAMBDA c : c \in Digit \cup {".", ",", "-"})
    IN  [i \in 1..Len(k) |-> IF k[i] = "," THEN "." ELSE k[i]]

\* _parse_number
ParseNumber(value) ==
    IF value.kind = "none" THEN << >>
    ELSE IF value.kind = "num" THEN <<value.num>>
    ELSE LET s      == Strip(value.str)
             dashes == {i \in 1..Len(s) : s[i] = "-"}
             d      == Min(dashes)
             start  == FloatOf(KeepNumeric(SubSeq(s, 1, d - 1)))
             end    == FloatOf(KeepNumeric(SubSeq(s, d + 1, Len(s))))
             rest   == KeepNumericMinus(s)
         IN  IF Cardinality(dashes) = 1 /\ start.ok /\ end.ok
             THEN <<(start.v + end.v) \div 2>>
             ELSE IF rest # << >> /\ FloatOf(rest).ok
             THEN <<FloatOf(rest).v>>
             ELSE << >>

DigitChar(d) ==
    <<"0", "1", "2", "3", "4", "5", "6", "7", "8", "9">>[d + 1]

RECURSIVE DigitsOf(_)
DigitsOf(n) ==
    IF n < 10 THEN <<DigitChar(n)>>
    ELSE DigitsOf(n \div 10) \o <<DigitChar(n % 10)>>

\* str(x) of a float x given in hundredths
NumChars(n) ==
    LET m  == IF n < 0 THEN 0 - n ELSE n
        fr == m % 100
    IN  (IF n < 0 THEN <<"-">> ELSE << >>) \o DigitsOf(m \div 100) \o <<".">>
        \o (IF fr % 10 = 0 THEN <<DigitChar(fr \div 10)>>
            ELSE <<DigitChar(fr \div 10), DigitChar(fr % 10)>>)

\* _clean_string: str(value).strip(), None when the value is None or
\* nothing is left (a JSON number is taken as a float)
CleanString(value) ==
    IF value.kind = "none" THEN << >>
    ELSE IF value.kind = "num" THEN NumChars(value.num)
    ELSE Strip(value.str)

\* handlers that catch nothing
LlmCaughtNone == {}

\* the exceptions the handlers of the conversion catch (except Exception)
LlmCaught == {"AttributeError", "TypeError", "ValueError", "KeyError"}

\* an item of the JSON list is an object (a dict) or a bare JSON value
IsDict(item) == "kind" \notin DOMAIN item

\* the dict _normalize_llm_data builds from the parsed numbers, None
\* (<< >>) unless a city or a price is there (a price of 0 counts as not
\* there)
Normalized(data, transport_type, pr, pu, days) ==
    IF \/ CleanString(data.origin_city) # << >>
       \/ CleanString(data.destination_city) # << >>
       \/ (pr # << >> /\ pr # <<0>>) \/ (pu # << >> /\ pu # <<0>>)
    THEN << [transport_type |-> transport_type,
             basis |-> data.basis,
             origin_city |-> CleanString(data.origin_city),
             destination_city |-> CleanString(data.destination_city),
             price_rub |-> pr,
             price_usd |-> pu,
             transit_time_days |-> days] >>
    ELSE << >>

\* the try block of _normalize_llm_data: the numbers are parsed, the
\* strings stripped, the empty fields dropped.  The countries, the vehicle
\* type and the validity date take no part in the test and are not
\* carried.  data.get raises AttributeError when the item is no dict.
NormalizeBody(data, transport_type) ==
    IF ~ IsDict(data) THEN [exc |-> "AttributeError", val |-> << >>]
    ELSE [exc |-> "",
          val |-> Normalized(data, transport_type,
                             ParseNumber(data.price_rub),
                             ParseNumber(data.price_usd),
                             ParseNumber(data.transit_time_days))]

\* the handler of _normalize_llm_data: what it catches gives None
NormalizeCatch(r) ==
    IF r.exc \in LlmCaught THEN [exc |-> "", val |-> << >>] ELSE r

\* _normalize_llm_data
NormalizeLlmData(data, transport_type) ==
    NormalizeCatch(NormalizeBody(data, transport_type))

RECURSIVE ConvertLoop(_, _, _)
\* one turn of the loop of _convert_json_to_app_format, r the outcome of
\* the normalisation of the first item: an item that normalises is
\* appended, an item whose normalisation raises is skipped by the handler
\* of the loop; what the handler does not catch ends the call
ConvertStep(raw, transport_type, acc, r) ==
    IF r.exc = ""
    THEN ConvertLoop(Tail(raw), transport_type, acc \o r.val)
    ELSE IF r.exc \in LlmCaught
    THEN ConvertLoop(Tail(raw), transport_type, acc)
    ELSE [exc |-> r.exc, val |-> << >>]

\* the loop of _convert_json_to_app_format
ConvertLoop(raw, transport_type, acc) ==
    IF raw = << >> THEN [exc |-> "", val |-> acc]
    ELSE ConvertStep(raw, transport_type, acc,
                     NormalizeLlmData(raw[1], transport_type))

\* _convert_json_to_app_format: the items that normalise, in their order
ConvertJsonToAppFormat(raw, transport_type) ==
    ConvertLoop(raw, transport_type, << >>)

\* extract_tariff_data: a blank text, or no JSON from the model (the
\* response is << >> then), gives the empty list
ExtractTariffData(T, response, transport_type) ==
    IF Flat(T) = << >> THEN [exc |-> "", val |-> << >>]
    ELSE IF response = << >> THEN [exc |-> "", val |-> << >>]
    ELSE ConvertJsonToAppFormat(response, transport_type)

(***************************************************************************)
(* BaseParser.validate_parsed_data, IntelligentParser.parse_file and the   *)
(* HuggingFaceLLMAnalyzer.  now is datetime.now() at the call.             *)
(***************************************************************************)
\* one item of validate_parsed_data: kept when it has both cities and a
\* price; a kept item gets the parser's transport type and the time
ValidatedItem(item, transport_type, now) ==
    IF \/ item.origin_city = << >> \/ item.destination_city = << >>
       \/ (item.price \in {<< >>, <<0>>} /\ item.price_rub \in {<< >>, <<0>>})
    THEN [kept |-> FALSE, item |-> item]
    ELSE [kept |-> TRUE,
          item |-> [item EXCEPT !.transport_type = transport_type,
                                !.parsed_at = <<now>>]]

\* validate_parsed_data: objs are the objects of the list it received as
\* the call leaves them, items is the list it returns
ValidateParsedData(data, transport_type, now) ==
    LET c    == [k \in 1..Len(data) |->
                    ValidatedItem(data[k], transport_type, now)]
        kept == SelectSeq(c, LAMBDA x : x.kept)
    IN  [objs  |-> [k \in 1..Len(data) |-> c[k].item],
         items |-> [k \in 1..Len(kept) |-> kept[k].item]]

\* the dict a failed parse returns (the keys it lacks read as empty)
Failed(error, transport_type, method) ==
    [error |-> error, transport_type |-> transport_type,
     parsing_method |-> method, parsed_at |-> << >>]

\* the currencies that end the 'number_price' pattern of the air table
NumberPriceCurrency == {"USD", "$", "ru:rub"}

\* _clean_text: white space becomes one space and the characters outside
\* its list are deleted, the bar of a table among them
CleanText(T) == SelectSeq(Flat(T), LAMBDA t : t # "|")

\* an amount a pattern captured: the key it is stored under, whether the
\* value is a number (or still the matched string), and the amount
Amount(key, typed, value) == [key |-> key, typed |-> typed, value |-> value]

\* data[f'{pattern}_value']: the key _process_special_cases makes for a
\* price whose pattern and matched string name no currency
ValueKey(pattern) == pattern \o "_value"

\* _parse_with_patterns with _process_special_cases, the amounts only.
\* In the air table the pattern 'number_price' (a number and a currency)
\* is the one that matches: the prices and the costs of the other
\* patterns need a word (price, cost, rate, precarriage, terminal
\* handling and their Russian counterparts) before the number, which no
\* line has.  re.findall gives the first match; the matched string stays
\* under the name of the pattern, and its number, when not zero, goes
\* under the name with _value.  No pattern of the table of the road
\* parser matches.
ParseWithPatterns(T, transport_type) ==
    LET W    == CleanText(T)
        hits == {i \in 1..Len(W) :
                    SeqAt(W, i, <<NumTok, NumberPriceCurrency>>)}
        v    == NumVal(W[Min(hits)])
    IN  IF transport_type # "air" \/ hits = {} THEN {}
        ELSE {Amount("number_price", FALSE, v)}
             \cup (IF v # 0
                   THEN {Amount(ValueKey("number_price"), TRUE, v)}
                   ELSE {})

\* IntelligentParser.parse_file: T is the text the extraction hands over,
\* empty when it failed; of the fields its patterns fill the amounts are
\* carried
ParseFile(T, transport_type, now) ==
    IF T = << >>
    THEN Failed("no text extracted", << >>, "")
    ELSE [error |-> "", transport_type |-> <<transport_type>>,
          parsing_method |-> "", parsed_at |-> <<now>>,
          amounts |-> ParseWithPatterns(T, transport_type)]

\* ParserFactory.detect_transport_type: the types in the order of the
\* table of indicator words
FactoryTypes == <<"auto", "rail", "sea", "air", "multimodal">>

\* the tokens of the documents that hold an indicator word of a type: the
\* Russian word for an aeroplane is an air indicator, and no other token
\* holds an indicator of any type
FactoryIndicators(tt) == IF tt = "air" THEN {"ru:samolet"} ELSE {}

\* the number of indicators of the type found in the content
FactoryScore(T, tt) == Cardinality(FactoryIndicators(tt) \cap Range(T))

\* max(scores, key=scores.get): the first type with the greatest score;
\* without content, and when no indicator is found, "auto"
DetectTransportType(T) ==
    LET best == CHOOSE i \in 1..Len(FactoryTypes) :
                    /\ \A j \in 1..Len(FactoryTypes) :
                           FactoryScore(T, FactoryTypes[j])
                               <= FactoryScore(T, FactoryTypes[i])
                    /\ \A j \in 1..(i - 1) :
                           FactoryScore(T, FactoryTypes[j])
                               < FactoryScore(T, FactoryTypes[i])
    IN  IF Flat(T) = << >> THEN "auto"
        ELSE IF FactoryScore(T, FactoryTypes[best]) > 0
        THEN FactoryTypes[best]
        ELSE "auto"

\* the keys of ParserFactory._parsers
ParserTypes == {"auto", "rail", "sea", "air", "multimodal", "llm"}

\* handlers that catch nothing
HfCaughtNone == {}

\* the exceptions the handlers of the analyzer catch (except Exception)
HfCaught == {"ValueError", "ImportError", "AttributeError", "TypeError",
             "KeyError"}

\* _extract_with_parser: pdata is what the patterns of parse_text_direct
\* find in the text.  When the import or get_parser raises, the handler
\* calls self._simple_parse, a method the class does not have, and the
\* AttributeError leaves the method.
ExtractWithParser(pdata, transport_type, env, now) ==
    LET inner == IF ~env.factory THEN "ImportError"
                 ELSE IF transport_type \notin ParserTypes THEN "ValueError"
                 ELSE ""
    IN  IF inner \in HfCaught
        THEN [exc |-> "AttributeError", data |-> pdata]
        ELSE [exc |-> inner, data |-> pdata]

\* required_fields of _validate_and_enrich_data
RequiredFields(transport_type) ==
    IF transport_type \in {"auto", "rail"}
    THEN <<"origin_city", "destination_city", "price_rub",
           "transit_time_days", "basis">>
    ELSE IF transport_type \in {"air", "sea"}
    THEN <<"origin_city", "destination_city", "price_usd",
           "transit_time_days", "basis">>
    ELSE << >>

DataFields == {"origin_city", "destination_city", "price_rub", "price_usd",
               "transit_time_days", "basis"}

\* _validate_and_enrich_data: a required price that is missing is
\* converted from the other currency at 100 roubles a dollar; the call is
\* stamped with the time
ValidateAndEnrichData(data, transport_type, now) ==
    LET req == RequiredFields(transport_type)
        val(f) ==
            IF data[f] # << >> \/ f \notin Range(req) THEN data[f]
            ELSE IF f = "price_usd" /\ data["price_rub"] # << >>
            THEN <<data["price_rub"][1] \div 100>>
            ELSE IF f = "price_rub" /\ data["price_usd"] # << >>
            THEN <<data["price_usd"][1] * 100>>
            ELSE << >>
    IN  [data |-> [f \in DataFields |-> val(f)],
         missing_required_fields |->
             SelectSeq(req, LAMBDA f : val(f) = << >>),
         transport_type |-> <<transport_type>>,
         parsed_at |-> <<now>>,
         parsing_method |-> "huggingface_llm_analysis",
         error |-> ""]

\* _fallback_parsing: the text goes to IntelligentParser.parse_file as if
\* it were a file name; no such file can be read, so the parse fails
FallbackParsing(transport_type, env) ==
    IF env.intelligent = "ImportError"
    THEN Failed("Import error", <<transport_type>>, "import_failed")
    ELSE IF env.intelligent # ""
    THEN Failed(env.intelligent, <<transport_type>>, "fallback_failed")
    ELSE Failed("Intelligent parser failed", <<transport_type>>,
                "intelligent_parser_failed")

\* analyze_context_and_structure: ldata is what the language model makes
\* of the parser's data when it is available and answers (<< >> when it
\* fails: _structure_with_llm then returns the parser's data)
AnalyzeContextAndStructure(pdata, ldata, transport_type, env, now) ==
    LET e == ExtractWithParser(pdata, transport_type, env, now)
        structured == IF env.llm /\ ldata # << >> THEN ldata[1] ELSE e.data
    IN  IF e.exc \in HfCaught
        THEN [exc |-> "", val |-> FallbackParsing(transport_type, env)]
        ELSE IF e.exc # "" THEN [exc |-> e.exc, val |-> << >>]
        ELSE [exc |-> "",
              val |-> ValidateAndEnrichData(structured, transport_type, now)]

(***************************************************************************)
(* The engine as a state machine.  One call of an entry point is one step: *)
(* the entry points are synchronous and keep nothing between calls.  The   *)
(* route that saves a tariff works on the database statement by statement, *)
(* and so do its steps.                                                    *)
(***************************************************************************)
VARIABLES
    text,      \* the text of the document handed to the engine
    entry,     \* the entry point that was called, "none" before the call
    hint,      \* the hints of the call and what its surroundings answer
    strategy,  \* the strategy the adaptive analyzer selected
    out,       \* what the call returned: [exc, val]
    now,       \* the clock datetime.now() reads
    again,     \* what a second call with the same input returned
    between,   \* the calls made between the first call and the second
    items,     \* a list handed to a cleaning or validating function
    objs,      \* the objects of that list before and after the call
    task,      \* the concurrent tasks: position, document, result
    catalog,   \* per analyzer instance, the confidence of each strategy
    debug_file, \* the content of llm_response_debug.txt
    db,        \* the committed rows of the tables tariffs and tariff_archive
    save       \* the calls of save_extracted_tariff: position and session

vars == <<text, entry, hint, strategy, out, now, again, between, items,
          objs, task, catalog, debug_file, db, save>>

\* what the tasks share and work on
taskVars == <<task, catalog, debug_file>>

\* the database and the calls that save into it
saveVars == <<db, save>>

\* the processes that serve calls of save_extracted_tariff
Savers == {1, 2}

\* a call that has not begun
NoSave == [pc |-> "idle", n |-> 0, data |-> << >>, existing |-> << >>,
           archived_count |-> 0]

\* no tariff stored, nothing archived
NoDb == [tariffs |-> {}, archive |-> {}]

\* nothing is being saved
NoSaving == db = NoDb /\ save = [s \in Savers |-> NoSave]

NoOut == [exc |-> "", val |-> << >>]

Hint(file_path, transport_type, pdata, ldata, env, response) ==
    [file_path |-> file_path, transport_type |-> transport_type,
     pdata |-> pdata, ldata |-> ldata, env |-> env, response |-> response]

NoHint == Hint("", "", << >>, << >>, << >>, << >>)

NoItems == [kind |-> "none", list |-> << >>]

NoObjs == [before |-> << >>, after |-> << >>]

NoAgain == [done |-> FALSE, out |-> NoOut]

Tasks == {1, 2}

\* a freshly constructed analyzer: every ParsingStrategy has confidence 0
FreshCatalog == [k \in 1..Len(StrategyNames) |-> 0]

NoTask == [pc |-> "idle", kind |-> "none", doc |-> << >>, k |-> 1,
           strategy |-> "none", content |-> << >>, out |-> NoOut]

\* what the parser's patterns can find in a text (parse_text_direct)
PD_empty ==
    [origin_city |-> << >>, destination_city |-> << >>, price_rub |-> << >>,
     price_usd |-> << >>, transit_time_days |-> << >>, basis |-> << >>]

PD_rub ==
    [PD_empty EXCEPT !.origin_city = <<"ru:Moskva">>,
                     !.destination_city = <<"ru:Kazan">>,
                     !.price_rub = <<1500000>>,
                     !.transit_time_days = <<5>>]

PD_usd ==
    [PD_empty EXCEPT !.origin_city = <<"Shanghai">>,
                     !.destination_city = <<"Moscow">>,
                     !.price_usd = <<950000>>,
                     !.basis = <<"EXW">>]

ParserData == {PD_empty, PD_rub, PD_usd}

\* the surroundings of the HuggingFace analyzer: whether the parser
\* factory imports, whether the language model is loaded, and how the
\* import and construction of IntelligentParser end
Env(factory, llm, intelligent) ==
    [factory |-> factory, llm |-> llm, intelligent |-> intelligent]

HfEnvs == {Env(TRUE, FALSE, ""), Env(TRUE, TRUE, ""), Env(FALSE, FALSE, ""),
           Env(FALSE, TRUE, "ImportError"), Env(FALSE, FALSE, "OSError")}

\* the transport types a caller passes ("truck" has no parser)
HfTypes == {"auto", "air", "multimodal", "truck"}

\* the hints and surroundings of one call of the HuggingFace analyzer
HfHints ==
    {Hint("", tt, pd, ld, e, << >>) :
        tt \in HfTypes, pd \in {PD_empty, PD_rub}, ld \in {<< >>, <<PD_usd>>},
        e \in HfEnvs}

\* JSON values
None == [kind |-> "none"]
Num(n) == [kind |-> "num", num |-> n]
Str(s) == [kind |-> "str", str |-> s]

Raw(oc, dc, rub, usd) ==
    [origin_city |-> oc, destination_city |-> dc, price_rub |-> rub,
     price_usd |-> usd, transit_time_days |-> None, basis |-> "EXW"]

\* the JSON lists the language model answers with (<< >>: no JSON found)
LlmResponses ==
    { << >>,
      << Raw(Str(<<"M", "o", "s">>), Str(<<"K", "a", "z">>), Num(1500000),
             None) >>,
      << Raw(None, None, None, None),
         Raw(Str(<<"M", "o", "s">>), None, Str(<<"2", "0", "-", "2", "5">>),
             Num(0 - 500)) >>,
      << Raw(Str(<<" ">>), None, Num(0), Str(<<"-", "5">>)) >>,
      << Raw(Str(<<"M", "o", "s">>), Str(<<"K", "a", "z">>),
             Str(<<"a", "b", "c">>), Num(120000)),
         Raw(Str(<<"K", "a", "z">>), None, Num(1500000), None) >> }

HfCall(h, t) ==
    AnalyzeContextAndStructure(h.pdata, h.ldata, h.transport_type, h.env, t)

Idle ==
    /\ now = 0 /\ again = NoAgain /\ between = 0
    /\ items = NoItems /\ objs = NoObjs
    /\ task = [t \in Tasks |-> NoTask]
    /\ catalog = [a \in Tasks |-> FreshCatalog]
    /\ debug_file = << >>
    /\ NoSaving

Init ==
    /\ text \in Docs
    /\ entry = "none" /\ hint = NoHint /\ strategy = "none" /\ out = NoOut
    /\ Idle

\* analyze_tariff_text_adaptive(text)
CallAdaptive ==
    /\ entry = "none"
    /\ entry' = "adaptive"
    /\ strategy' = DetectFormat(text)
    /\ out' = AnalyzeText(text)
    /\ UNCHANGED <<text, hint, now, again, between, items, objs, taskVars, saveVars>>

\* analyze_with_context(text, file_path)
CallContext ==
    /\ entry = "none"
    /\ \E fp \in FilePaths :
          /\ hint' = [NoHint EXCEPT !.file_path = fp]
          /\ out' = AnalyzeWithContext(text, fp)
    /\ entry' = "context"
    /\ UNCHANGED <<text, strategy, now, again, between, items, objs, taskVars, saveVars>>

\* analyze_file_universal(text, file_path) for the files it hands to the
\* adaptive analysis; objs are the routes clean_routes receives
UniversalStep(a, fp) ==
    /\ a.exc = ""
    /\ hint' = [NoHint EXCEPT !.file_path = fp]
    /\ out' = [exc |-> a.exc, val |-> a.val]
    /\ objs' = a.received

CallUniversal ==
    /\ entry = "none"
    /\ \E fp \in FilePaths :
          /\ DetermineTransportType(text, fp) = "multimodal"
          /\ UniversalStep(AnalyzeFile(text, fp), fp)
    /\ entry' = "universal"
    /\ UNCHANGED <<text, strategy, now, again, between, items, taskVars, saveVars>>

\* LLMParser.extract_tariff_data(text, "auto")
CallLlm ==
    /\ entry = "none"
    /\ \E r \in LlmResponses :
          /\ hint' = [NoHint EXCEPT !.transport_type = "auto", !.response = r]
          /\ out' = ExtractTariffData(text, r, "auto")
    /\ entry' = "llm"
    /\ UNCHANGED <<text, strategy, now, again, between, items, objs, taskVars, saveVars>>

\* the transport types parse_file is called with
ParseFileTypes == {"auto", "air"}

\* IntelligentParser.parse_file; text is what the extraction produced
CallParseFile ==
    /\ entry = "none"
    /\ entry' = "parse_file"
    /\ \E tt \in ParseFileTypes :
          /\ hint' = [NoHint EXCEPT !.transport_type = tt]
          /\ out' = [exc |-> "", val |-> ParseFile(text, tt, now)]
    /\ UNCHANGED <<text, strategy, now, again, between, items, objs, taskVars, saveVars>>

\* analyze_context_and_structure(text, transport_type)
CallHf ==
    /\ entry = "none"
    /\ \E h \in HfHints :
          /\ hint' = h
          /\ out' = HfCall(h, now)
    /\ entry' = "hf"
    /\ UNCHANGED <<text, strategy, now, again, between, items, objs, taskVars, saveVars>>

Next ==
    \/ CallAdaptive
    \/ CallContext
    \/ CallUniversal
    \/ CallLlm
    \/ CallParseFile
    \/ CallHf

Spec == Init /\ [][Next]_vars

(***************************************************************************)
(* The cleaning, validating and normalising functions on lists of their    *)
(* own: the list is drawn, one call is one step.                           *)
(***************************************************************************)
MaxItems == 2

MaxRaw == 2

\* a candidate as a parser hands it to the cleaning or the validation
Item(oc, dc, price, price_rub) ==
    [origin_city |-> oc, destination_city |-> dc, price |-> price,
     price_rub |-> price_rub, transport_type |-> "", parsed_at |-> << >>]

ItemSet ==
    {Item(oc, dc, p, pr) :
        oc \in {<< >>, <<"Moscow">>, <<"ru:Kazan", ":", "15000", "ru:rub">>},
        dc \in {<<"Kazan">>, <<"Moscow">>},
        p \in {<< >>, <<950000>>}, pr \in {<< >>, <<0>>}}

RawNumbers ==
    {None, Num(0), Num(0 - 500), Str(<<"-", "5">>),
     Str(<<"2", "0", "-", "2", "5">>), Str(<<" ", "1", ",", "5", "$">>)}

\* the items of a JSON list: objects, and bare values that are no object
RawSet ==
    {Raw(oc, None, rub, usd) :
        oc \in {None, Str(<<" ">>), Str(<<"M", "o", "s">>)},
        rub \in RawNumbers, usd \in {None, Num(1200)}}
    \cup {None, Str(<<"M", "o", "s">>)}

ListsOf(S, n) == UNION {[1..k -> S] : k \in 0..n}

InitItems ==
    /\ \/ \E l \in ListsOf(ItemSet, MaxItems) :
              items = [kind |-> "routes", list |-> l]
       \/ \E l \in ListsOf(RawSet, MaxRaw) :
              items = [kind |-> "raw", list |-> l]
    /\ text = << >> /\ entry = "none" /\ hint = NoHint /\ strategy = "none"
    /\ out = NoOut /\ now = 1 /\ again = NoAgain /\ between = 0
    /\ objs = NoObjs
    /\ task = [t \in Tasks |-> NoTask]
    /\ catalog = [a \in Tasks |-> FreshCatalog]
    /\ debug_file = << >>
    /\ NoSaving

\* UniversalAnalyzer.clean_routes(items)
ApplyCleanRoutes ==
    /\ entry = "none" /\ items.kind = "routes"
    /\ entry' = "clean_routes"
    /\ out' = [exc |-> "", val |-> CleanRoutes(items.list).routes]
    /\ objs' = [before |-> items.list, after |-> CleanRoutes(items.list).objs]
    /\ UNCHANGED <<text, hint, strategy, now, again, between, items, taskVars, saveVars>>

\* BaseParser.validate_parsed_data(items) of a parser of some transport
ApplyValidateParsedData ==
    /\ entry = "none" /\ items.kind = "routes"
    /\ \E tt \in {"auto", "sea"} :
          /\ hint' = [NoHint EXCEPT !.transport_type = tt]
          /\ out' = [exc |-> "",
                     val |-> ValidateParsedData(items.list, tt, now).items]
          /\ objs' = [before |-> items.list,
                      after  |-> ValidateParsedData(items.list, tt, now).objs]
    /\ entry' = "validate_parsed_data"
    /\ UNCHANGED <<text, strategy, now, again, between, items, taskVars, saveVars>>

\* LLMParser._convert_json_to_app_format(items, "auto")
ApplyConvert ==
    /\ entry = "none" /\ items.kind = "raw"
    /\ entry' = "convert"
    /\ hint' = [NoHint EXCEPT !.transport_type = "auto"]
    /\ out' = ConvertJsonToAppFormat(items.list, "auto")
    /\ UNCHANGED <<text, strategy, now, again, between, items, objs, taskVars, saveVars>>

NextItems ==
    \/ ApplyCleanRoutes
    \/ ApplyValidateParsedData
    \/ ApplyConvert

SpecItems == InitItems /\ [][NextItems]_vars

(***************************************************************************)
(* The same call made twice, other calls and time in between.              *)
(***************************************************************************)
MaxClock == 2

MaxBetween == 2

\* the documents of at most one line
ShortDocs == {JoinLines(ls) : ls \in ListsOf(Lines, 1)}

InitTwice ==
    /\ text \in ShortDocs
    /\ entry = "none" /\ hint = NoHint /\ strategy = "none" /\ out = NoOut
    /\ Idle

\* datetime.now() moves on
Tick ==
    /\ now < MaxClock
    /\ now' = now + 1
    /\ UNCHANGED <<text, entry, hint, strategy, out, again, between, items,
                   objs, taskVars, saveVars>>

\* a call for another document: the adaptive and the context analyzer
\* are constructed for the call, and a call of the parser or of the
\* HuggingFace analyzer assigns nothing of the instance it is made on
OtherCall ==
    /\ entry # "none" /\ ~again.done /\ between < MaxBetween
    /\ between' = between + 1
    /\ UNCHANGED <<text, entry, hint, strategy, out, now, again, items, objs,
                   taskVars, saveVars>>

\* the first call once more: same text, same hints, same surroundings
SecondCall ==
    /\ entry \in {"adaptive", "context", "parse_file", "hf"} /\ ~again.done
    /\ again' = [done |-> TRUE,
                 out  |-> CASE entry = "adaptive" -> AnalyzeText(text)
                            [] entry = "context" ->
                                 AnalyzeWithContext(text, hint.file_path)
                            [] entry = "parse_file" ->
                                 [exc |-> "",
                                  val |-> ParseFile(text, hint.transport_type,
                                                    now)]
                            [] OTHER -> HfCall(hint, now)]
    /\ UNCHANGED <<text, entry, hint, strategy, out, now, between, items,
                   objs, taskVars, saveVars>>

NextTwice ==
    \/ CallAdaptive
    \/ CallContext
    \/ CallParseFile
    \/ CallHf
    \/ Tick
    \/ OtherCall
    \/ SecondCall

SpecTwice == InitTwice /\ [][NextTwice]_vars

(***************************************************************************)
(* Documents processed concurrently.  A task runs analyze_text on its own  *)
(* document, or the language-model extraction; the steps of the tasks      *)
(* interleave.                                                             *)
(***************************************************************************)
\* one analyzer kept for all the calls
AnalyzerOfShared(t) == 1

\* the analyzer a task works on: analyze_tariff_text_adaptive constructs
\* one for the call
AnalyzerOf(t) == t

StartTasks ==
    {[NoTask EXCEPT !.pc = "detect", !.kind = "adaptive", !.doc = d] :
        d \in ShortDocs}
    \cup {[NoTask EXCEPT !.pc = "chat", !.kind = "llm", !.doc = d] :
        d \in {L_ru, L_exw2}}

InitTasks ==
    /\ task \in [Tasks -> StartTasks]
    /\ catalog = [a \in Tasks |-> FreshCatalog]
    /\ debug_file = << >>
    /\ NoSaving
    /\ text = << >> /\ entry = "none" /\ hint = NoHint /\ strategy = "none"
    /\ out = NoOut /\ now = 0 /\ again = NoAgain /\ between = 0
    /\ items = NoItems /\ objs = NoObjs

\* _detect_format, one strategy of the loop: strategy.confidence is
\* assigned on the analyzer's strategy object
DetectStep(t) ==
    LET k == task[t].k
    IN  /\ task[t].pc = "detect"
        /\ catalog' = [catalog EXCEPT
                         ![AnalyzerOf(t)][k] =
                             Confidence(StrategyNames[k], task[t].doc)]
        /\ task' = [task EXCEPT
                      ![t].k = IF k < Len(StrategyNames) THEN k + 1 ELSE k,
                      ![t].pc = IF k < Len(StrategyNames) THEN "detect"
                                ELSE "select"]
        /\ UNCHANGED <<text, entry, hint, strategy, out, now, again, between,
                       items, objs, debug_file, saveVars>>

\* _detect_format, the max over the analyzer's strategies
Select(t) ==
    /\ task[t].pc = "select"
    /\ task' = [task EXCEPT
                  ![t].strategy = BestStrategy(catalog[AnalyzerOf(t)]),
                  ![t].pc = "apply"]
    /\ UNCHANGED <<text, entry, hint, strategy, out, now, again, between,
                   items, objs, catalog, debug_file,
                   saveVars>>

\* _apply_strategy with the strategy selected
Apply(t) ==
    /\ task[t].pc = "apply"
    /\ task' = [task EXCEPT
                  ![t].out = ApplyStrategy(task[t].doc, task[t].strategy),
                  ![t].pc = "done"]
    /\ UNCHANGED <<text, entry, hint, strategy, out, now, again, between,
                   items, objs, catalog, debug_file,
                   saveVars>>

\* _extract_raw_json_data: the model answers
Chat(t) ==
    /\ task[t].pc = "chat"
    /\ \E r \in LlmResponses :
          task' = [task EXCEPT ![t].content = r, ![t].pc = "save"]
    /\ UNCHANGED <<text, entry, hint, strategy, out, now, again, between,
                   items, objs, catalog, debug_file,
                   saveVars>>

\* _extract_raw_json_data: the answer is written to the debug file
SaveDebug(t) ==
    /\ task[t].pc = "save"
    /\ debug_file' = task[t].content
    /\ task' = [task EXCEPT ![t].pc = "convert"]
    /\ UNCHANGED <<text, entry, hint, strategy, out, now, again, between,
                   items, objs, catalog, saveVars>>

\* the JSON of the answer is extracted and converted
Convert(t) ==
    /\ task[t].pc = "convert"
    /\ task' = [task EXCEPT
                  ![t].out = ExtractTariffData(task[t].doc, task[t].content,
                                               "auto"),
                  ![t].pc = "done"]
    /\ UNCHANGED <<text, entry, hint, strategy, out, now, again, between,
                   items, objs, catalog, debug_file,
                   saveVars>>

NextTasks ==
    \E t \in Tasks :
        \/ DetectStep(t)
        \/ Select(t)
        \/ Apply(t)
        \/ Chat(t)
        \/ SaveDebug(t)
        \/ Convert(t)

SpecTasks == InitTasks /\ [][NextTasks]_vars

(***************************************************************************)
(* The normalisation primitives: the number and date parsers of LLMParser  *)
(* and of IntelligentParser and _float_or_none of services/parsers.py.     *)
(* A string is the sequence of its characters.                             *)
(***************************************************************************)
\* the spaces go and the commas stay
NoSpacesComma(s) == SelectSeq(s, LAMBDA c : c # " ")

\* str(value).replace(' ', '').replace(',', '.')
NoSpacesDot(s) ==
    LET k == SelectSeq(s, LAMBDA c : c # " ")
    IN  [i \in 1..Len(k) |-> IF k[i] = "," THEN "." ELSE k[i]]

RECURSIVE JoinParts(_)
\* ''.join(parts)
JoinParts(parts) ==
    IF parts = << >> THEN << >> ELSE parts[1] \o JoinParts(Tail(parts))

\* IntelligentParser._parse_number: the spaces go, a comma is a point, of
\* several points only the last stays; whatever float() refuses is None
IpParseNumber(value) ==
    IF value.kind = "none" THEN << >>
    ELSE IF value.kind = "num" THEN <<value.num>>
    ELSE LET c     == NoSpacesDot(value.str)
             parts == SplitKeep(c, {"."})
             clean == IF Len(parts) > 2
                      THEN JoinParts(SubSeq(parts, 1, Len(parts) - 1))
                           \o <<".">> \o parts[Len(parts)]
                      ELSE c
             f     == FloatOf(clean)
         IN  IF f.ok THEN <<f.v>> ELSE << >>

\* _float_or_none: float(str(v).replace(" ", "").replace(",", "."))
FloatOrNone(v) ==
    IF v.kind = "none" THEN << >>
    ELSE LET f == FloatOf(NoSpacesDot(IF v.kind = "num" THEN NumChars(v.num)
                                      ELSE v.str))
         IN  IF f.ok THEN <<f.v>> ELSE << >>

\* a run of digits of lo to hi characters: [ok, v]
DigitField(s, lo, hi) ==
    LET ok == /\ Len(s) >= lo /\ Len(s) <= hi
              /\ \A i \in 1..Len(s) : s[i] \in Digit
    IN  [ok |-> ok, v |-> IF ok THEN IntOf(s) ELSE 0]

\* %d of strptime: 3[0-1]|[1-2]\d|0[1-9]|[1-9]| [1-9]
DayField(s) ==
    IF Len(s) = 2 /\ s[1] = " " /\ s[2] \in Digit \ {"0"}
    THEN [ok |-> TRUE, v |-> DigitVal(s[2])]
    ELSE LET f == DigitField(s, 1, 2)
         IN  [ok |-> f.ok /\ f.v >= 1 /\ f.v <= 31, v |-> f.v]

\* %m of strptime: 1[0-2]|0[1-9]|[1-9]
MonthField(s) ==
    LET f == DigitField(s, 1, 2)
    IN  [ok |-> f.ok /\ f.v >= 1 /\ f.v <= 12, v |-> f.v]

\* %Y is four digits; %y is two digits, 69..99 in 1900, 00..68 in 2000
YearField(s, long) ==
    LET f == IF long THEN DigitField(s, 4, 4) ELSE DigitField(s, 2, 2)
    IN  [ok |-> f.ok,
         v  |-> IF long THEN f.v ELSE IF f.v <= 68 THEN 2000 + f.v
                ELSE 1900 + f.v]

IsLeap(y) == (y % 4 = 0 /\ y % 100 # 0) \/ y % 400 = 0

DaysIn(y, m) ==
    IF m = 2 THEN (IF IsLeap(y) THEN 29 ELSE 28)
    ELSE IF m \in {4, 6, 9, 11} THEN 30 ELSE 31

\* a date format: its separator, whether the year comes first and whether
\* the year has four digits
Fmt(sep, yearFirst, long) == [sep |-> sep, yearFirst |-> yearFirst, long |-> long]

\* datetime.strptime(s, fmt): [ok, y, m, d]; not ok is ValueError (no
\* match, unconverted data, or a date that does not exist)
Strptime(s, fmt) ==
    LET parts == SplitKeep(s, {fmt.sep})
        three == Len(parts) = 3
        ys    == IF ~three THEN << >>
                 ELSE IF fmt.yearFirst THEN parts[1] ELSE parts[3]
        ds    == IF ~three THEN << >>
                 ELSE IF fmt.yearFirst THEN parts[3] ELSE parts[1]
        ms    == IF ~three THEN << >> ELSE parts[2]
        y     == YearField(ys, fmt.long)
        m     == MonthField(ms)
        d     == DayField(ds)
        ok    == /\ three /\ y.ok /\ m.ok /\ d.ok
                 /\ y.v >= 1
                 /\ d.v <= DaysIn(y.v, m.v)
    IN  [ok |-> ok, y |-> y.v, m |-> m.v, d |-> d.v]

\* %m and %d of strftime, and the fields of isoformat
Pad2(n) == IF n < 10 THEN <<"0">> \o DigitsOf(n) ELSE DigitsOf(n)

Pad4(n) ==
    IF n < 10 THEN <<"0", "0", "0">> \o DigitsOf(n)
    ELSE IF n < 100 THEN <<"0", "0">> \o DigitsOf(n)
    ELSE IF n < 1000 THEN <<"0">> \o DigitsOf(n)
    ELSE DigitsOf(n)

\* date.isoformat()
IsoFormat(t) == Pad4(t.y) \o <<"-">> \o Pad2(t.m) \o <<"-">> \o Pad2(t.d)

\* strftime("%Y-%m-%d"): the C library writes the year; glibc does not pad
\* a year below 1000, other libraries do
Strftime(t, padded) ==
    (IF padded THEN Pad4(t.y) ELSE DigitsOf(t.y))
    \o <<"-">> \o Pad2(t.m) \o <<"-">> \o Pad2(t.d)

\* date_formats of LLMParser._parse_date, in the order of the list
DateFormats ==
    <<Fmt(".", FALSE, TRUE), Fmt("/", FALSE, TRUE), Fmt("-", TRUE, TRUE),
      Fmt(".", FALSE, FALSE), Fmt("/", FALSE, FALSE), Fmt("-", TRUE, FALSE)>>

\* formats of IntelligentParser._parse_date, in the order of the list
IpDateFormats ==
    <<Fmt(".", FALSE, TRUE), Fmt("/", FALSE, TRUE), Fmt(".", FALSE, FALSE),
      Fmt("/", FALSE, FALSE), Fmt("-", TRUE, TRUE)>>

\* the index of the first format of the list that parses s, 0 when none
FirstFormat(s, formats) ==
    LET ok == {k \in 1..Len(formats) : Strptime(s, formats[k]).ok}
    IN  IF ok = {} THEN 0 ELSE Min(ok)

\* LLMParser._parse_date: None for None, for a value that is no string and
\* for a blank string; the date of the first format that parses the
\* stripped string; else the stripped string
ParseDate(value, padded) ==
    IF value.kind # "str" THEN << >>
    ELSE LET s == Strip(value.str)
             k == FirstFormat(s, DateFormats)
         IN  IF s = << >> THEN << >>
             ELSE IF k > 0 THEN <<Strftime(Strptime(s, DateFormats[k]), padded)>>
             ELSE <<s>>

\* IntelligentParser._parse_date: None for a falsy value (None, '', 0);
\* the date of the first format that parses the stripped str(value); else
\* the stripped string
IpParseDate(value) ==
    IF \/ value.kind = "none"
       \/ (value.kind = "str" /\ value.str = << >>)
       \/ (value.kind = "num" /\ value.num = 0)
    THEN << >>
    ELSE LET s == Strip(IF value.kind = "num" THEN NumChars(value.num)
                        ELSE value.str)
             k == FirstFormat(s, IpDateFormats)
         IN  IF k > 0 THEN <<IsoFormat(Strptime(s, IpDateFormats[k]))>>
             ELSE <<s>>

(***************************************************************************)
(* The primitives applied to one value each.  hint.response is the value   *)
(* handed in, out.val the optional result: << >> is None, <<x>> is x.      *)
(***************************************************************************)
MaxChars == 3

NumberChars == {"2", "5", "-", ",", ".", " ", "a"}

\* the strings of the examples and some of their neighbours
S_20_25   == <<"2", "0", "-", "2", "5">>
S_20_25sp == <<"2", "0", " ", "-", " ", "2", "5">>
S_1234_56 == <<"1", " ", "2", "3", "4", ",", "5", "6">>
S_1d234_56 == <<"1", ".", "2", "3", "4", ",", "5", "6">>
S_12_345  == <<"1", "2", " ", "3", "4", "5">>
S_notdate == <<"n", "o", "t", " ", "a", " ", "d", "a", "t", "e">>

NumberStrings ==
    UNION {[1..n -> NumberChars] : n \in 0..MaxChars}
    \cup {S_20_25, S_20_25sp, S_1234_56, S_1d234_56, S_12_345, S_notdate}

\* the fields and separators the date strings are written with
DateFields ==
    { <<"1", "5">>, <<"3">>, <<"0", "2">>, <<"2", "9">>, <<"3", "1">>,
      <<"2", "4">>, <<"6", "9">>, <<"2", "0", "2", "4">>,
      <<"2", "0", "2", "3">>, <<"0", "9", "9", "9">>, <<" ", "5">> }

DateSeps == {".", "/", "-"}

DateStrings ==
    { pad \o a \o <<s1>> \o b \o <<s2>> \o c \o pad :
        a \in DateFields, b \in DateFields, c \in DateFields,
        s1 \in DateSeps, s2 \in DateSeps, pad \in {<< >>, <<" ">>} }

(***************************************************************************)
(* The resolution of a place name, on the characters of the name:          *)
(* ContextAnalyzer._extract_city_from_text with _is_valid_city,            *)
(* AutoAnalyzer._extract_city_from_text and                                *)
(* AdaptiveTariffAnalyzer._get_city_by_code.                               *)
(***************************************************************************)
\* the characters the generated names are written with
PlaceChars == {"c", "e", "1"}

P_Omsk  == <<"O", "m", "s", "k">>
P_FCL   == <<"F", "C", "L">>
P_Nice  == <<"N", "i", "c", "e">>
P_HKG   == <<"H", "K", "G">>
P_Kazan == <<"K", "a", "z", "a", "n">>

PlaceStrings ==
    UNION {[1..n -> PlaceChars] : n \in 0..MaxChars}
    \cup {P_Omsk, P_FCL, P_Nice, P_HKG, P_Kazan}

\* str.lower() and str.upper(), a character at a time
LowerChar(c) ==
    CASE c = "A" -> "a"
      [] c = "B" -> "b"
      [] c = "C" -> "c"
      [] c = "F" -> "f"
      [] c = "G" -> "g"
      [] c = "H" -> "h"
      [] c = "K" -> "k"
      [] c = "L" -> "l"
      [] c = "M" -> "m"
      [] c = "N" -> "n"
      [] c = "O" -> "o"
      [] c = "P" -> "p"
      [] c = "W" -> "w"
      [] OTHER -> c

UpperChar(c) ==
    CASE c = "a" -> "a"
      [] c = "c" -> "c"
      [] c = "e" -> "e"
      [] c = "g" -> "g"
      [] c = "i" -> "i"
      [] c = "k" -> "k"
      [] c = "m" -> "m"
      [] c = "n" -> "n"
      [] c = "o" -> "o"
      [] c = "s" -> "s"
      [] c = "z" -> "z"
      [] OTHER -> c

LowerStr(s) == [i \in 1..Len(s) |-> LowerChar(s[i])]

UpperStr(s) == [i \in 1..Len(s) |-> UpperChar(s[i])]

\* t in s
Contains(s, t) ==
    \E i \in 0..(Len(s) - Len(t)) : SubSeq(s, i + 1, i + Len(t)) = t

\* str.isdigit()
IsDigit(s) == s # << >> /\ \A i \in 1..Len(s) : s[i] \in Digit

\* invalid_terms of _is_valid_city (a Russian term is one character here:
\* no name of the bound holds it)
InvalidTerms ==
    << <<"f", "a", "c", "t", "o", "r", "y">>,
       <<"d", "e", "s", "t", "i", "n", "a", "t", "i", "o", "n">>,
       <<"w", "i", "t", "h", "o", "u", "t">>,
       <<"r", "e", "l", "o", "a", "d", "i", "n", "g">>,
       <<"p", "l", "e", "a", "s", "e">>,
       <<"r", "e", "c", "h", "e", "c", "k">>, <<"c", "a", "s", "e">>,
       <<"a", "b", "o", "v", "e">>,
       <<"q", "u", "o", "t", "a", "t", "i", "o", "n">>,
       <<"a", "s", "s", "u", "m", "e", "d">>,
       <<"c", "a", "r", "r", "i", "a", "g", "e">>,
       <<"c", "o", "s", "t", "s">>,
       <<"o", "v", "e", "r", "w", "e", "i", "g", "h", "t">>,
       <<"t", "a", "r", "p", "a", "u", "l", "i", "n">>,
       <<"t", "r", "u", "c", "k">>, <<"c", "e">>, <<"p", "o", "l">>,
       <<"p", "o", "d">>, <<"f", "c", "l">>, <<"l", "t", "l">>,
       <<"f", "t", "l">>, <<"s", "e", "a">>, <<"a", "i", "r">>,
       <<"r", "a", "i", "l">>, <<"a", "u", "t", "o">>, <<"ru:morskoj">>,
       <<"ru:avia">>, <<"ru:zhd">>, <<"ru:avto">>, <<"p", "o", "r", "t">>,
       <<"t", "e", "r", "m", "i", "n", "a", "l">>, <<"0", "5">>,
       <<"c", "o", "m">> >>

\* _is_valid_city on the characters of a name: a term is looked for
\* inside the lower-cased name
ValidCityName(city) ==
    /\ city # << >>
    /\ Len(city) >= 2
    /\ ~IsDigit(city)
    /\ \A k \in 1..Len(InvalidTerms) :
           ~Contains(LowerStr(city), InvalidTerms[k])

\* the characters kept by re.sub(r'[^\w\s\-\.]', ' ', text)
KeptChar(c) == c \notin {",", "/", "$", ":", "|"}

RECURSIVE OneSpace(_)
\* re.sub(r'\s+', ' ', text)
OneSpace(s) ==
    IF Len(s) < 2 THEN s
    ELSE IF s[1] = " " /\ s[2] = " " THEN OneSpace(Tail(s))
    ELSE <<s[1]>> \o OneSpace(Tail(s))

\* ContextAnalyzer._extract_city_from_text
CityFromText(given) ==
    LET spaced == [i \in 1..Len(given) |->
                      IF KeptChar(given[i]) THEN given[i] ELSE " "]
        cleaned == Strip(OneSpace(spaced))
    IN  IF given = << >> THEN << >>
        ELSE IF ValidCityName(cleaned) THEN <<cleaned>>
        ELSE << >>

\* the keys of city_codes and the entries of auto_routes of AutoAnalyzer
\* that occur in a name of the bound, in the order of the source
AutoCityNames == <<P_Kazan>>

AutoRouteCodes == <<[code |-> P_HKG, city |-> <<"ru:Gonkong">>]>>

\* the name is in neither table of AutoAnalyzer
AutoUnmatched(t) ==
    /\ \A k \in 1..Len(AutoCityNames) :
           ~Contains(LowerStr(t), LowerStr(AutoCityNames[k]))
    /\ \A k \in 1..Len(AutoRouteCodes) :
           ~Contains(LowerStr(t), LowerStr(AutoRouteCodes[k].code))

\* AutoAnalyzer._extract_city_from_text
AutoCityFromText(given) ==
    LET t == Strip(given)
        names == {k \in 1..Len(AutoCityNames) :
                     Contains(LowerStr(t), LowerStr(AutoCityNames[k]))}
        codes == {k \in 1..Len(AutoRouteCodes) :
                     Contains(LowerStr(t), LowerStr(AutoRouteCodes[k].code))}
    IN  IF t = << >> THEN << >>
        ELSE IF names # {} THEN <<AutoCityNames[Min(names)]>>
        ELSE IF codes # {} THEN <<AutoRouteCodes[Min(codes)].city>>
        ELSE IF Len(t) > 2 /\ ~IsDigit(t) THEN <<t>>
        ELSE << >>

\* airport_codes of _get_city_by_code
AirportCodes ==
    << [code |-> <<"H", "K", "G">>, city |-> <<"Hong Kong">>],
       [code |-> <<"X", "I", "Y">>, city |-> <<"Xian">>],
       [code |-> <<"P", "E", "K">>, city |-> <<"Beijing">>],
       [code |-> <<"P", "V", "G">>, city |-> <<"Shanghai">>],
       [code |-> <<"C", "A", "N">>, city |-> <<"Guangzhou">>],
       [code |-> <<"S", "Z", "X">>, city |-> <<"Shenzhen">>],
       [code |-> <<"N", "G", "B">>, city |-> <<"Ningbo">>],
       [code |-> <<"T", "S", "N">>, city |-> <<"Tianjin">>],
       [code |-> <<"T", "A", "O">>, city |-> <<"Qingdao">>],
       [code |-> <<"M", "O", "W">>, city |-> <<"Moscow">>],
       [code |-> <<"L", "E", "D">>, city |-> <<"St. Petersburg">>],
       [code |-> <<"M", "S", "Q">>, city |-> <<"Minsk">>] >>

\* _get_city_by_code on the characters of a code:
\* airport_codes.get(code.upper(), code)
CityByCode(code) ==
    LET hit == {k \in 1..Len(AirportCodes) :
                   AirportCodes[k].code = UpperStr(code)}
    IN  IF hit # {} THEN AirportCodes[Min(hit)].city ELSE code

\* the values the number parsers are applied to
NumberValues ==
    {None, Num(0), Num(2250), Num(0 - 500)}
    \cup {Str(s) : s \in NumberStrings}

\* the values the date parsers are applied to
\* the names the place resolvers are applied to
PlaceValues == {Str(s) : s \in PlaceStrings}

PrimitiveValues ==
    NumberValues \cup {Str(s) : s \in DateStrings} \cup PlaceValues

InitPrimitives ==
    /\ \E v \in PrimitiveValues : hint = [NoHint EXCEPT !.response = v]
    /\ text = << >>
    /\ entry = "none" /\ strategy = "none" /\ out = NoOut
    /\ Idle

\* what a primitive leaves alone
PrimitiveFrame ==
    UNCHANGED <<text, hint, strategy, now, again, between, items, objs,
                taskVars, saveVars>>

\* LLMParser._parse_number(value)
ApplyParseNumber ==
    /\ entry = "none"
    /\ hint.response \in NumberValues
    /\ entry' = "parse_number"
    /\ out' = [exc |-> "", val |-> ParseNumber(hint.response)]
    /\ PrimitiveFrame

\* IntelligentParser._parse_number(value)
ApplyIpParseNumber ==
    /\ entry = "none"
    /\ hint.response \in NumberValues
    /\ entry' = "ip_parse_number"
    /\ out' = [exc |-> "", val |-> IpParseNumber(hint.response)]
    /\ PrimitiveFrame

\* _float_or_none(v)
ApplyFloatOrNone ==
    /\ entry = "none"
    /\ hint.response \in NumberValues
    /\ entry' = "float_or_none"
    /\ out' = [exc |-> "", val |-> FloatOrNone(hint.response)]
    /\ PrimitiveFrame

\* LLMParser._parse_date(value), with either C library
ApplyParseDate ==
    /\ entry = "none"
    /\ entry' = "parse_date"
    /\ \E padded \in BOOLEAN :
          out' = [exc |-> "", val |-> ParseDate(hint.response, padded)]
    /\ PrimitiveFrame

\* IntelligentParser._parse_date(date_str)
ApplyIpParseDate ==
    /\ entry = "none"
    /\ entry' = "ip_parse_date"
    /\ out' = [exc |-> "", val |-> IpParseDate(hint.response)]
    /\ PrimitiveFrame

\* ContextAnalyzer._extract_city_from_text(text)
ApplyCityFromText ==
    /\ entry = "none"
    /\ hint.response \in PlaceValues
    /\ entry' = "extract_city_from_text"
    /\ out' = [exc |-> "", val |-> CityFromText(hint.response.str)]
    /\ PrimitiveFrame

\* AutoAnalyzer._extract_city_from_text(text)
ApplyAutoCityFromText ==
    /\ entry = "none"
    /\ hint.response \in PlaceValues
    /\ entry' = "auto_extract_city_from_text"
    /\ out' = [exc |-> "", val |-> AutoCityFromText(hint.response.str)]
    /\ PrimitiveFrame

\* AdaptiveTariffAnalyzer._get_city_by_code(code)
ApplyCityByCode ==
    /\ entry = "none"
    /\ hint.response \in PlaceValues
    /\ entry' = "get_city_by_code"
    /\ out' = [exc |-> "", val |-> <<CityByCode(hint.response.str)>>]
    /\ PrimitiveFrame

NextPrimitives ==
    \/ ApplyParseNumber
    \/ ApplyIpParseNumber
    \/ ApplyFloatOrNone
    \/ ApplyParseDate
    \/ ApplyIpParseDate
    \/ ApplyCityFromText
    \/ ApplyAutoCityFromText
    \/ ApplyCityByCode

SpecPrimitives == InitPrimitives /\ [][NextPrimitives]_vars

(***************************************************************************)
(* save_extracted_tariff.  Every call has a session of its own: a query    *)
(* reads the committed rows, commit() writes what the session holds, and   *)
(* rollback() drops what is not committed.  Calls served by different      *)
(* processes share the database and nothing else; their statements         *)
(* interleave.                                                             *)
(***************************************************************************)
\* the keys of a tariff: supplier, transport type, basis, origin country
\* and city, destination country and city, vehicle type
Keys == {1, 2}

\* the prices of the tariffs saved
Prices == {1, 2}

\* the calls one process serves
MaxSaves == 2

\* the id of the row the n-th call of process s inserts: the database
\* gives every row an id of its own
RowId(s, n) == (n - 1) * Cardinality(Savers) + s

Tariff(id, key, price) == [id |-> id, key |-> key, price |-> price]

\* a tariff stored before the calls
StoredBefore == Tariff(0, 1, 1)

InitSave ==
    /\ db \in {NoDb, [NoDb EXCEPT !.tariffs = {StoredBefore}]}
    /\ save = [s \in Savers |-> NoSave]
    /\ text = << >> /\ entry = "none" /\ hint = NoHint /\ strategy = "none"
    /\ out = NoOut /\ now = 0 /\ again = NoAgain /\ between = 0
    /\ items = NoItems /\ objs = NoObjs
    /\ task = [t \in Tasks |-> NoTask]
    /\ catalog = [a \in Tasks |-> FreshCatalog]
    /\ debug_file = << >>

\* what a call of save_extracted_tariff leaves alone
SaveFrame ==
    UNCHANGED <<text, entry, hint, strategy, out, now, again, between, items,
                objs, taskVars>>

\* the call begins: the supplier is found, tariff_dict is made
Begin(s) ==
    /\ save[s].pc \in {"idle", "done", "failed"}
    /\ save[s].n < MaxSaves
    /\ \E k \in Keys, p \in Prices :
          save' = [save EXCEPT
                     ![s] = [NoSave EXCEPT !.pc = "query",
                                           !.n = save[s].n + 1,
                                           !.data = [key |-> k, price |-> p]]]
    /\ UNCHANGED db
    /\ SaveFrame

\* db.query(models.Tariff).filter(...).all(): the committed rows of the
\* key, by id
ExistingTariffs(d, key) ==
    LET ids == SetToSeq({t.id : t \in {r \in d.tariffs : r.key = key}})
    IN  [i \in 1..Len(ids) |-> CHOOSE r \in d.tariffs : r.id = ids[i]]

\* existing_tariffs = ...all(); if existing_tariffs: ...
Query(s) ==
    /\ save[s].pc = "query"
    /\ LET found == ExistingTariffs(db, save[s].data.key)
       IN  save' = [save EXCEPT
                      ![s].existing = found,
                      ![s].pc = IF found = << >> THEN "insert"
                                ELSE "archive"]
    /\ UNCHANGED db
    /\ SaveFrame

\* an archive copy that stays in the session
ArchiveTariffPending(d, by, tariff) == d

\* archive_tariff: the copy is added and committed (archived_by stands
\* for the id of the archive row: it tells the copies of different calls
\* apart)
ArchiveTariff(d, by, tariff) ==
    [d EXCEPT !.archive = @ \cup {[original_tariff_id |-> tariff.id,
                                   key |-> tariff.key,
                                   price |-> tariff.price,
                                   archived_by |-> by]}]

\* for old_tariff in existing_tariffs: archive_service.archive_tariff(...),
\* one tariff of the loop
ArchiveStep(s) ==
    LET k == save[s].archived_count + 1
    IN  /\ save[s].pc = "archive"
        /\ db' = ArchiveTariff(db, RowId(s, save[s].n), save[s].existing[k])
        /\ save' = [save EXCEPT
                      ![s].archived_count = k,
                      ![s].pc = IF k < Len(save[s].existing) THEN "archive"
                                ELSE "delete"]
        /\ SaveFrame

\* for old_tariff in existing_tariffs: db.delete(old_tariff); db.commit()
\* (a row another call has removed is no error)
DeleteCommit(s) ==
    /\ save[s].pc = "delete"
    /\ db' = [db EXCEPT
                !.tariffs = {t \in @ : \A k \in 1..Len(save[s].existing) :
                                           t.id # save[s].existing[k].id}]
    /\ save' = [save EXCEPT ![s].pc = "insert"]
    /\ SaveFrame

\* db_tariff = models.Tariff(**tariff_dict); db.add; db.commit; db.refresh
Insert(s) ==
    /\ save[s].pc = "insert"
    /\ db' = [db EXCEPT
                !.tariffs = @ \cup {Tariff(RowId(s, save[s].n),
                                           save[s].data.key,
                                           save[s].data.price)}]
    /\ save' = [save EXCEPT ![s].pc = "done"]
    /\ SaveFrame

\* a statement or a commit raises (the connection, a constraint of the
\* database, a row that is gone): except Exception: db.rollback() and
\* HTTPException 500; what was committed stays
Fail(s) ==
    /\ save[s].pc \in {"query", "archive", "delete", "insert"}
    /\ save' = [save EXCEPT ![s].pc = "failed"]
    /\ UNCHANGED db
    /\ SaveFrame

NextSave ==
    \E s \in Savers :
        \/ Begin(s)
        \/ Query(s)
        \/ ArchiveStep(s)
        \/ DeleteCommit(s)
        \/ Insert(s)
        \/ Fail(s)

SpecSave == InitSave /\ [][NextSave]_vars

(***************************************************************************)
(* The properties.                                                         *)
(***************************************************************************)
\* the entry points that return a result with a list of routes
AnalyzerPaths == {"adaptive", "context", "universal"}

Returned == entry \in AnalyzerPaths /\ out.exc = ""

\* an optional amount is absent or not negative
NonNeg(v) == v = << >> \/ v[1] >= 0

\* C1: whichever analyzer path (adaptive, context, universal) produced it,
\* the list of routes returned for a document has at most 10 routes.
C1_AtMostTen ==
    Returned => Len(out.val.routes) <= MaxRoutes

\* C2: every returned route has an origin city different from its
\* destination city whenever both are present.
C2_DistinctEnds ==
    Returned =>
        \A k \in 1..Len(out.val.routes) :
            LET r == out.val.routes[k]
            IN  \/ r.origin_city = << >>
                \/ r.destination_city = << >>
                \/ r.origin_city # r.destination_city

\* C3: analyze_tariff_text_adaptive, analyze_with_context and
\* analyze_context_and_structure return to the caller for every text: no
\* exception leaves them.
C3_NeverRaises ==
    entry \in {"adaptive", "context", "hf"} => out.exc = ""

\* C3 at work: the parser factory could not be imported, the exception was
\* handled inside and the call returned the dict of the fallback
C3_Witness ==
    /\ entry = "hf" /\ ~ hint.env.factory
    /\ out.exc = "" /\ out.val.error # ""

\* C4: an empty text (also the empty text of a failed extraction) gives an
\* empty list of candidates and no error is reported.
C4_EmptyInput ==
    (text = << >> /\ entry \in AnalyzerPaths \cup {"llm", "parse_file"}) =>
        /\ out.exc = ""
        /\ entry \in AnalyzerPaths =>
              out.val.routes = << >> /\ out.val.error = ""
        /\ entry = "llm" => out.val = << >>
        /\ entry = "parse_file" => out.val.error = ""

\* C5: the same entry point called twice with the same text and the same
\* hints returns the same result, whatever was called in between.
C5_SameTwice ==
    again.done => again.out = out

\* C6: of documents analysed concurrently, every task selects the strategy
\* and returns the result it would have alone, under every interleaving.
C6_AsIfAlone ==
    \A t \in Tasks :
        task[t].pc = "done" =>
            IF task[t].kind = "adaptive"
            THEN /\ task[t].strategy = DetectFormat(task[t].doc)
                 /\ task[t].out = AnalyzeText(task[t].doc)
            ELSE task[t].out =
                     ExtractTariffData(task[t].doc, task[t].content, "auto")

\* C6 at work: two adaptive tasks have finished with different strategies,
\* their detection loops having run side by side
C6_Witness ==
    /\ \A t \in Tasks : task[t].pc = "done" /\ task[t].kind = "adaptive"
    /\ task[1].strategy # task[2].strategy
    /\ catalog[1] # catalog[2]

\* C7: clean_routes and validate_parsed_data leave every field of the
\* candidate objects they receive as it was.
C7_Unmodified ==
    entry \in {"clean_routes", "validate_parsed_data"} =>
        objs.after = objs.before

\* C8: every price and every ancillary cost of a returned candidate is
\* absent or not negative.
C8_NonNegative ==
    /\ (entry \in {"adaptive", "universal"} /\ out.exc = "") =>
          /\ NonNeg(out.val.price_usd) /\ NonNeg(out.val.price_rub)
          /\ NonNeg(out.val.car_parking_cost)
          /\ NonNeg(out.val.handling_cost)
          /\ NonNeg(out.val.declaration_cost)
          /\ NonNeg(out.val.registration_cost)
          /\ \A k \in 1..Len(out.val.routes) :
                /\ NonNeg(out.val.routes[k].price_usd)
                /\ NonNeg(out.val.routes[k].price_rub)
    /\ entry = "context" =>
          /\ \A c \in out.val.additional_costs : c[2] >= 0
          /\ \A k \in 1..Len(out.val.routes) :
                /\ NonNeg(out.val.routes[k].price_usd)
                /\ NonNeg(out.val.routes[k].price_rub)
                /\ NonNeg(out.val.routes[k].price_cny)
    /\ entry = "llm" =>
          \A k \in 1..Len(out.val) :
              NonNeg(out.val[k].price_usd) /\ NonNeg(out.val[k].price_rub)

\* C9: no two routes of one result have the same pair of origin city and
\* destination city.
C9_NoDuplicatePair ==
    Returned =>
        \A i, j \in 1..Len(out.val.routes) :
            i < j =>
                \/ out.val.routes[i].origin_city # out.val.routes[j].origin_city
                \/ out.val.routes[i].destination_city
                       # out.val.routes[j].destination_city

\* C10: the routes of a result are in the order in which their matches
\* begin in the text (a route found by a city keyword has no match).
C10_MatchOrder ==
    Returned =>
        \A i, j \in 1..Len(out.val.routes) :
            (i < j /\ out.val.routes[i].pos > 0 /\ out.val.routes[j].pos > 0)
                => out.val.routes[i].pos <= out.val.routes[j].pos

\* C11: for a document that is one line "EXW origin1/origin2 - destination
\* - $price", each analyzer path returns exactly two routes, one per
\* origin in the order written, both with the shared destination and the
\* stated price as price_usd, and the basis of the result is EXW.
C11_OnePerOrigin ==
    (Returned /\ text \in {L_exw2, L_exw2s}) =>
        /\ Len(out.val.routes) = 2
        /\ out.val.routes[1].origin_city = <<"Shenzhen">>
        /\ out.val.routes[2].origin_city = <<"Guangzhou">>
        /\ \A k \in 1..2 :
              /\ out.val.routes[k].destination_city = <<"Moscow">>
              /\ out.val.routes[k].price_usd = <<950000>>
        /\ out.val.basis = "EXW"

\* the number parsers and the date parsers
NumberParsers == {"parse_number", "ip_parse_number", "float_or_none"}

DateParsers == {"parse_date", "ip_parse_date"}

\* the string handed to a primitive
Given == hint.response.str

GivenString == hint.response.kind = "str"

AllDigits(s) == s # << >> /\ \A i \in 1..Len(s) : s[i] \in Digit

\* a simple range: digits, a dash, digits
SimpleRange(s) ==
    \E d \in 2..(Len(s) - 1) :
        /\ s[d] = "-"
        /\ AllDigits(SubSeq(s, 1, d - 1))
        /\ AllDigits(SubSeq(s, d + 1, Len(s)))

\* the mean of a simple range, in hundredths
RangeMean(s) ==
    LET d == CHOOSE i \in 1..Len(s) : s[i] = "-"
    IN  (IntOf(SubSeq(s, 1, d - 1)) * 100
         + IntOf(SubSeq(s, d + 1, Len(s))) * 100) \div 2

\* C12: the number parsers of LLMParser and of IntelligentParser turn a
\* simple range "a-b" into the mean (a+b)/2; "20-25" gives 22.5.
C12_RangeMean ==
    (/\ entry \in {"parse_number", "ip_parse_number"}
     /\ GivenString
     /\ SimpleRange(Given))
        => out.val = <<RangeMean(Given)>>

\* a number written with digits, spaces between them and at most one
\* decimal comma followed by at most two digits
Grouped(s) ==
    LET commas == {i \in 1..Len(s) : s[i] = ","}
    IN  /\ \A i \in 1..Len(s) : s[i] \in Digit \cup {" ", ","}
        /\ \E i \in 1..Len(s) : s[i] \in Digit
        /\ Cardinality(commas) <= 1
        /\ \A c \in commas :
              Cardinality({i \in (c + 1)..Len(s) : s[i] \in Digit}) <= 2

\* the number such a string writes, in hundredths
GroupedValue(s) ==
    LET commas == {i \in 1..Len(s) : s[i] = ","}
        c      == IF commas = {} THEN Len(s) + 1 ELSE Min(commas)
        ip     == SelectSeq(SubSeq(s, 1, c - 1), LAMBDA x : x \in Digit)
        fp     == SelectSeq(SubSeq(s, c + 1, Len(s)), LAMBDA x : x \in Digit)
    IN  IntOf(ip) * 100
        + (IF Len(fp) = 0 THEN 0
           ELSE IF Len(fp) = 1 THEN DigitVal(fp[1]) * 10
           ELSE DigitVal(fp[1]) * 10 + DigitVal(fp[2]))

C14_FirstFormatIso ==
    (/\ entry \in DateParsers
     /\ GivenString)
        => LET s  == Strip(Given)
               fs == IF entry = "parse_date" THEN DateFormats
                     ELSE IpDateFormats
               k  == FirstFormat(s, fs)
           IN  k > 0 => out.val = <<IsoFormat(Strptime(s, fs[k]))>>

\* C15: a string that no format of a date parser's list parses comes
\* back as it was given, and no exception leaves the parser.
C15_UnparsedUnchanged ==
    (/\ entry \in DateParsers
     /\ GivenString)
        => LET fs == IF entry = "parse_date" THEN DateFormats
                     ELSE IpDateFormats
           IN  FirstFormat(Strip(Given), fs) = 0
                   => out.exc = "" /\ out.val = <<Given>>

\* C16: when the normalisation of some items of a JSON list raises, the
\* conversion returns, and it returns exactly the candidates it returns
\* for the list without those items: only the raising items are skipped.
C16_OnlyThatOneSkipped ==
    entry = "convert" =>
        /\ out.exc = ""
        /\ out.val =
              ConvertJsonToAppFormat(SelectSeq(items.list, IsDict), "auto").val

\* one item of the list raised and another one was returned
C16_Witness ==
    /\ entry = "convert"
    /\ \E k \in 1..Len(items.list) : ~ IsDict(items.list[k])
    /\ Len(out.val) = 1

\* a price match whose text float() refuses
Unparsed(m) == CleanFloat(m.g).exc # ""

\* a JSON string without a digit, such as "abc"
NoDigit(v) == v.kind = "str" /\ \A i \in 1..Len(v.str) : v.str[i] \notin Digit

Nulled(v) == IF NoDigit(v) THEN None ELSE v

\* the JSON list with null in the place of the numbers that do not parse
NulledList(raw) ==
    [k \in 1..Len(raw) |->
        [raw[k] EXCEPT !.price_rub = Nulled(@), !.price_usd = Nulled(@),
                       !.transit_time_days = Nulled(@)]]

\* C17: a number that does not parse costs its own field and nothing
\* else.  When price matches of the adaptive analysis do not parse, the
\* call returns the routes of the text and the prices of the matches that
\* do parse; the conversion of a JSON list returns what it returns for the
\* list with null in the place of the numbers that do not parse.
C17_FieldNulled ==
    /\ entry = "adaptive" =>
          LET ms   == PriceMatches(strategy, text)
              good == SelectSeq(ms, LAMBDA m : ~ Unparsed(m))
              pr   == FoldPrices(good, 1,
                                 [exc |-> "", usd |-> << >>, rub |-> << >>])
          IN  (\E k \in 1..Len(ms) : Unparsed(ms[k])) =>
                  /\ out.exc = ""
                  /\ out.val.routes = ExtractRoutes(text, strategy).routes
                  /\ out.val.price_usd = pr.usd
                  /\ out.val.price_rub = pr.rub
    /\ entry = "llm" =>
          out = ExtractTariffData(text, NulledList(hint.response), "auto")

\* a price match did not parse while another one gave the price, and the
\* routes are there
C17_Witness ==
    /\ entry = "adaptive"
    /\ \E k \in 1..Len(PriceMatches(strategy, text)) :
           Unparsed(PriceMatches(strategy, text)[k])
    /\ out.val.price_usd # << >>
    /\ Len(out.val.routes) = 2

\* C18: with the hint "auto" the transport type of the result is the one
\* detected from the document.  A call of analyze_context_and_structure
\* with the hint "auto" that succeeds returns as transport type the type
\* ParserFactory.detect_transport_type finds in the text.
C18_AutoMeansDetected ==
    (/\ entry = "hf"
     /\ hint.transport_type = "auto"
     /\ out.exc = ""
     /\ out.val.error = "")
        => out.val.transport_type = <<DetectTransportType(text)>>

\* the marks of an amount in dollars
UsdMarks == {"$", "USD"}

\* the price fields of analyze_context_and_structure
PriceFields == {"price_rub", "price_usd"}

\* the data of a call of analyze_context_and_structure states a price
StatedTo(h, f) ==
    \/ h.pdata[f] # << >>
    \/ h.ldata # << >> /\ h.ldata[1][f] # << >>

\* C19: the engine never derives a price in one currency from an amount
\* stated in another.  The FTL extraction of the adaptive analysis gives no
\* price in dollars to the routes of a text without an amount in dollars,
\* and a successful call of analyze_context_and_structure returns a price
\* field only when the parser or the language model stated that field.
C19_NoCrossCurrency ==
    /\ (/\ entry = "adaptive"
        /\ strategy = "ftl_tariff"
        /\ out.exc = ""
        /\ Range(text) \cap UsdMarks = {})
           => \A k \in 1..Len(out.val.routes) :
                  out.val.routes[k].price_usd = << >>
    /\ (/\ entry = "hf"
        /\ out.exc = ""
        /\ out.val.error = "")
           => \A f \in PriceFields :
                  out.val.data[f] # << >> => StatedTo(hint, f)

\* the lines that name a fee no pattern knows
UnknownFeeLines == {L_fee, L_store}

\* the text without those lines
KnownFees(T) ==
    JoinLines(SelectSeq(SplitLines(T), LAMBDA l : l \notin UnknownFeeLines))

\* the keys of the cost_patterns of _extract_additional_costs
ContextCostKeys == {"parking", "handling", "declaration", "registration"}

\* the four costs of a result of the adaptive analysis
CostMap(v) ==
    <<v.car_parking_cost, v.handling_cost, v.declaration_cost,
      v.registration_cost>>

\* the four costs _extract_costs finds in a text
CostsOfText(T) ==
    <<CostOf(Flat(T), {"PARKING"}), CostOf(Flat(T), {"HANDLING"}),
      CostOf(Flat(T), {"DECLARATION"}), CostOf(Flat(T), {"REGISTRATION"})>>

\* C20: ancillary fees are stored under the fixed cost keys only, and an
\* amount with a name that is not recognized is dropped.  The costs and
\* the amounts a call returns are those of the text without the lines
\* that name an unknown fee, and the costs of the context analysis carry
\* the keys of its table.
C20_UnknownFeeDropped ==
    /\ (entry \in {"adaptive", "universal"} /\ out.exc = "") =>
          CostMap(out.val) = CostsOfText(KnownFees(text))
    /\ entry = "context" =>
          /\ out.val.additional_costs = ExtractAdditionalCosts(KnownFees(text))
          /\ \A c \in out.val.additional_costs : c[1] \in ContextCostKeys
    /\ (entry = "parse_file" /\ out.val.error = "") =>
          out.val.amounts = ParseWithPatterns(KnownFees(text),
                                              hint.transport_type)

\* a candidate carries a price: one that is there and not 0
Priced(v) == v # << >> /\ v # <<0>>

\* C21: no returned candidate lacks every price while also lacking its
\* origin or its destination.  Every candidate validate_parsed_data and
\* the conversion of a JSON list return has a price or both cities.
C21_PriceOrRoute ==
    /\ entry = "validate_parsed_data" =>
          \A k \in 1..Len(out.val) :
              \/ Priced(out.val[k].price) \/ Priced(out.val[k].price_rub)
              \/ (out.val[k].origin_city # << >>
                  /\ out.val[k].destination_city # << >>)
    /\ (entry = "convert" /\ out.exc = "") =>
          \A k \in 1..Len(out.val) :
              \/ Priced(out.val[k].price_rub) \/ Priced(out.val[k].price_usd)
              \/ (out.val[k].origin_city # << >>
                  /\ out.val[k].destination_city # << >>)

\* C22: the detector returns the strategy of the highest confidence, and
\* among the strategies of that confidence the one of the lowest priority
\* number.  No strategy has a higher confidence on the text than the one
\* the call selected, and none of the same confidence a lower priority
\* number.
C22_HighestThenPriority ==
    entry = "adaptive" =>
        \A k \in 1..Len(StrategyNames) :
            LET n == StrategyNames[k]
            IN  \/ Confidence(n, text) < Confidence(strategy, text)
                \/ /\ Confidence(n, text) = Confidence(strategy, text)
                   /\ Priority(strategy) <= Priority(n)

\* two strategies share the highest confidence, which is not 0, and the
\* one of the lower priority number was selected
C22_Witness ==
    /\ entry = "adaptive"
    /\ Confidence(strategy, text) > 0
    /\ \E k \in 1..Len(StrategyNames) :
           /\ StrategyNames[k] # strategy
           /\ Confidence(StrategyNames[k], text) = Confidence(strategy, text)

\* C23: for every input text the confidence of the universal fallback
\* strategy is greater than zero (so that detection always has a strategy
\* to return)
C23_UniversalNonZero ==
    entry = "adaptive" =>
        /\ strategy \in {StrategyNames[k] : k \in 1..Len(StrategyNames)}
        /\ Confidence("universal", text) > 0

\* C24: strategy detection has no side effects.  After _detect_format has
\* returned, every strategy of the analyzer's catalog has the confidence it
\* had before the call: the confidence is not stored in the catalog.
C24_CatalogUntouched ==
    \A t \in Tasks :
        (task[t].kind = "adaptive" /\ task[t].pc \in {"apply", "done"}) =>
            catalog[AnalyzerOf(t)] = FreshCatalog

\* the cells of a table line that hold a place, in the order of the line
ResolvableCells(L) ==
    LET parts == SplitKeep(L, {"|"})
    IN  SelectSeq([k \in 1..Len(parts) |-> ExtractCityFromText(parts[k])],
                  LAMBDA n : n # << >>)

\* C25: for a line of a table, the origin and the destination of the
\* route are the first two cells of the line that are not empty and hold
\* a place; the empty cells and the cells without a place before them are
\* skipped.
C25_FirstTwoResolvable ==
    (entry = "context" /\ out.val.structure_type = "tabular") =>
        \A k \in 1..Len(SplitLines(text)) :
            LET L     == SplitLines(text)[k]
                cells == ResolvableCells(L)
            IN  ("|" \in Range(L) /\ Len(cells) >= 2) =>
                    \E i \in 1..Len(out.val.routes) :
                        /\ out.val.routes[i].origin_city = cells[1]
                        /\ out.val.routes[i].destination_city = cells[2]

\* the resolvers of a place name
PlaceResolvers ==
    {"extract_city_from_text", "auto_extract_city_from_text",
     "get_city_by_code"}

\* the name is no entry of the lookup table of the resolver (the
\* resolver of the context analyzer has no table)
Unmatched(resolver, name) ==
    CASE resolver = "auto_extract_city_from_text" -> AutoUnmatched(name)
      [] resolver = "get_city_by_code" ->
             \A k \in 1..Len(AirportCodes) :
                 AirportCodes[k].code # UpperStr(name)
      [] OTHER -> TRUE

\* the heuristic of a plausible place name: at least two characters, not
\* a number, none of the stop words
Plausible(name) ==
    /\ Len(name) >= 2
    /\ ~IsDigit(name)
    /\ \A k \in 1..Len(InvalidTerms) : LowerStr(name) # InvalidTerms[k]

\* C26: a place name that is no entry of the lookup table resolves to
\* itself exactly when it has at least two characters, is not purely
\* numeric and is no stop word; in every other case it resolves to null.
C26_PlausibleOrNull ==
    (entry \in PlaceResolvers /\ Unmatched(entry, Given)) =>
        out.val = IF Plausible(Given) THEN <<Given>> ELSE << >>

\* the amounts a text states with the code of the yuan behind the number
YuanAmounts(T) ==
    LET W == Flat(T)
    IN  {CleanFloat(Slice(W, i, CnyNumberEnd(W, i) - 1)).v :
            i \in {j \in 1..Len(W) : CnyNumberAt(W, j)}}

\* the amounts a text states in dollars: the symbol before the number, or
\* the symbol or the code behind it
DollarAmounts(T) ==
    LET W == Flat(T)
    IN  {NumVal(W[i]) :
            i \in {j \in 1..Len(W) :
                      /\ W[j] \in NumTok
                      /\ \/ j > 1 /\ W[j - 1] = "$"
                         \/ j < Len(W) /\ W[j + 1] \in UsdMarks}}

\* C27: the currency of an extracted amount follows the precedence
\* explicit code or symbol, then currency word, then the default currency
\* of the strategy.  An amount that the text states with an explicit code
\* is a price of that currency: the adaptive analysis returns no amount
\* stated with the code of the yuan, and not in dollars, as its price in
\* dollars or in roubles.
C27_ExplicitCodeWins ==
    (entry = "adaptive" /\ out.exc = "") =>
        \A v \in YuanAmounts(text) \ DollarAmounts(text) :
            /\ out.val.price_usd # <<v>>
            /\ out.val.price_rub # <<v>>

\* no call of save_extracted_tariff is under way
Quiet == \A s \in Savers : save[s].pc \in {"idle", "done", "failed"}

\* C28: after any interleaving of calls of save_extracted_tariff at most
\* one tariff is stored per key: a save supersedes every stored tariff of
\* its key.
C28_OnePerKey ==
    Quiet =>
        \A k \in Keys : Cardinality({t \in db.tariffs : t.key = k}) <= 1

\* C29: a save deletes a superseded tariff only after an archive copy of
\* it has been committed.  Every step that removes a tariff from the table
\* finds a committed row of tariff_archive for it.
C29_ArchivedBeforeDelete ==
    [][\A t \in db.tariffs \ db'.tariffs :
           \E a \in db.archive : a.original_tariff_id = t.id]_vars

\* a tariff has been superseded: it is archived and no longer stored
C29_Witness ==
    \E a \in db.archive :
        \A t \in db.tariffs : t.id # a.original_tariff_id

\* C30: a call of save_extracted_tariff that fails leaves the stored data
\* as they were: it has added no archive record, and every tariff it found
\* for the key is still stored, unless another call has superseded it.
C30_FailedSaveNoEffect ==
    \A s \in Savers :
        save[s].pc = "failed" =>
            /\ \A a \in db.archive : a.archived_by # RowId(s, save[s].n)
            /\ \A k \in 1..Len(save[s].existing) :
                   \/ save[s].existing[k] \in db.tariffs
                   \/ \E a \in db.archive :
                          /\ a.original_tariff_id = save[s].existing[k].id
                          /\ a.archived_by # RowId(s, save[s].n)

====
